---------------------------- MODULE Spec2Model ----------------------------
(***************************************************************************)
(* Flight booking: seat-inventory cache (Redis) in front of the flights    *)
(* table, the booking saga of BookingServiceV2 and the search cache with   *)
(* its singleflight group.                                                 *)
(*                                                                         *)
(* Every Redis command and every SQL statement is one atomic step; a Go    *)
(* handler is the sequence of the commands it issues, and handlers of      *)
(* different requests interleave between those commands.                   *)
(***************************************************************************)
EXTENDS Integers, Sequences, FiniteSets, TLC

(***************************************************************************)
(* Bounds of the model.                                                    *)
(***************************************************************************)
NReq == 2
\* concurrent ValidateFlight requests at the flight service

MaxSeats == 2
\* largest seats value a request carries

MaxCount == 4
\* cap of a cached seat count (guard of IncrementSeats)

TotalSeats == 2
\* total_seats of the flight row

MaxBooked == 1
\* largest booked_seats of the flight row at start

FlightPrice == 5
\* price of the flight row

KnownFlights == {1}
\* ids with a row in the flights table

FlightInputs == {1, 2}
\* flight ids a request may carry (2 has no row)

Dates == {"2024-02-15"}
\* dates a request may carry

SeatInputs == (-1)..MaxSeats
\* seats values a request body may carry (the handlers reject <= 0)

NSagas == 2
\* concurrent CreateBooking requests at the booking service

Users == {1, 2}
\* user ids a booking request may carry

Reqs == 1..NReq

Sagas == 1..NSagas

NSearch == 3
\* concurrent SearchFlights requests at the flight service

Searchers == 1..NSearch

SearchKeys == {<<"DEL", "BOM", "2024-02-15">>, <<"DEL", "GOI", "2024-02-15">>}
\* (source, destination, date) of a search: a route with a flight, one without

TempKeys == Users \X KnownFlights

NCancel == 2
\* CancelBooking requests, concurrent or one after the other

Cancels == 1..NCancel

BookingInputs == 0..NSagas
\* booking ids a cancellation request may carry (the handler rejects <= 0)

SeatKeys == KnownFlights \X Dates

(***************************************************************************)
(* State.                                                                  *)
(***************************************************************************)
VARIABLES
    flights,      \* flights table: id -> row (no statement of the code writes it)
    seatCache,    \* Redis flight_seats:{id}:{date} -> entry
    req,          \* ValidateFlight requests in progress at the flight service
    lastOp,       \* history: the operation the last step belonged to, and its outcome
    seatHist,     \* history per seat key: what happened since the entry was seeded
    saga,         \* CreateBooking requests at the booking service
    tempCache,    \* Redis temp_booking:{user}:{flight} -> TempBooking
    bookings,     \* bookings table: the rows in order of their ids
    bookingCache, \* Redis booking:{id} -> Booking
    search,       \* SearchFlights requests at the flight service
    searchCache,  \* Redis flight_search:{source}:{destination}:{date} -> flights
    searchGroup,  \* singleflight.Group: key -> the call in flight (its starter), 0: none
    calls,        \* singleflight calls, named by the request that started each
    dbCalls,      \* history: executions of searchFlightsFromDB per key
    cancel,       \* CancelBooking requests at the booking service
    finder,       \* a search of the flights table by the path finder, and its results
    paySvc,       \* PaymentService: failureRate and timeoutRate, in percent
    pay           \* ProcessPayment and Simulate* calls at the payment service

seatVars == <<flights, seatCache, req, lastOp, seatHist>>

bookingVars == <<saga, tempCache, bookings, bookingCache>>

searchVars == <<search, searchCache, searchGroup, calls, dbCalls>>

payVars == <<paySvc, pay>>

(***************************************************************************)
(* Redis and SQL primitives.                                               *)
(***************************************************************************)
NoEntry == [has |-> FALSE, n |-> 0, ttl |-> FALSE]

\* GenerateSeatCacheKey: the key is the pair (flightID, date)
GenerateSeatCacheKey(f, d) == <<f, d>>

\* SET key value EX 3600, as getAvailableSeats issues it
RedisSetEx(n) == [has |-> TRUE, n |-> n, ttl |-> TRUE]

RedisIncrByOne(entry, by) ==
    IF entry.has THEN [entry EXCEPT !.n = entry.n + 1]
    ELSE [has |-> TRUE, n |-> 1, ttl |-> FALSE]

\* INCRBY: a missing key counts as 0 and is created without a time to live
RedisIncrBy(entry, by) ==
    IF entry.has THEN [entry EXCEPT !.n = entry.n + by]
    ELSE [has |-> TRUE, n |-> by, ttl |-> FALSE]

\* SELECT total_seats - booked_seats FROM flights WHERE id = $1 AND DATE(departure_time) = $2
QueryAvailableSeats(fl, f, d) ==
    IF f \in DOMAIN fl /\ fl[f].date = d
    THEN [found |-> TRUE, n |-> fl[f].total - fl[f].booked]
    ELSE [found |-> FALSE, n |-> 0]

ErrNotFound == "Seat count not found in cache"
ErrNotEnough == "Not enough seats available"
ErrInvalid == "Invalid flight ID, seats, or date"

LuaDecrementUnchecked(entry, requested) ==
    IF ~entry.has THEN [entry |-> entry, reply |-> ErrNotFound]
    ELSE [entry |-> [entry EXCEPT !.n = entry.n - requested], reply |-> "ok"]

LuaDecrementCreating(entry, requested) ==
    IF ~entry.has
    THEN [entry |-> [has |-> TRUE, n |-> 0, ttl |-> FALSE], reply |-> ErrNotFound]
    ELSE IF entry.n < requested
    THEN [entry |-> [entry EXCEPT !.n = 0], reply |-> ErrNotEnough]
    ELSE [entry |-> [entry EXCEPT !.n = entry.n - requested], reply |-> "ok"]

\* The Lua script of DecrementSeats, run by Redis as one command
LuaDecrement(entry, requested) ==
    IF ~entry.has THEN [entry |-> entry, reply |-> ErrNotFound]
    ELSE IF entry.n < requested THEN [entry |-> entry, reply |-> ErrNotEnough]
    ELSE [entry |-> [entry EXCEPT !.n = entry.n - requested], reply |-> "ok"]

ValidSeatUpdateAny(f, s, d) == TRUE

\* FlightHandlers.DecrementSeats / IncrementSeats / ValidateFlight: request validation
ValidSeatUpdate(f, s, d) == ~(f <= 0 \/ s <= 0 \/ d = "")

(***************************************************************************)
(* History bookkeeping of a seat key.                                      *)
(*   seeded   the entry was written by getAvailableSeats from the table    *)
(*   out      seats decremented minus seats incremented since that write   *)
(*   base     the count after the last increment, write, creation          *)
(*   decSince seats of the successful decrements since then                *)
(***************************************************************************)
NoHist == [seeded |-> FALSE, out |-> 0, base |-> 0, decSince |-> 0]

HistSeed(n) == [seeded |-> TRUE, out |-> 0, base |-> n, decSince |-> 0]

HistDec(h, s) == [h EXCEPT !.out = h.out + s, !.decSince = h.decSince + s]

HistInc(h, s, entry) ==
    [seeded |-> h.seeded, out |-> IF h.seeded THEN h.out - s ELSE 0,
     base |-> entry.n, decSince |-> 0]

IdleReq == [pc |-> "idle", f |-> 0, d |-> "", seats |-> 0, avail |-> 0]

Op(op, key, seats, pre, res) ==
    [op |-> op, key |-> key, seats |-> seats, pre |-> pre, res |-> res]

NoKey == <<0, "">>

InitSeat ==
    /\ \E b \in 0..MaxBooked :
         flights = [f \in KnownFlights |->
                      [total |-> TotalSeats, booked |-> b, price |-> FlightPrice,
                       date |-> "2024-02-15"]]
    /\ seatCache = [k \in SeatKeys |-> NoEntry]
    /\ req = [r \in Reqs |-> IdleReq]
    /\ lastOp = Op("init", NoKey, 0, NoEntry, "ok")
    /\ seatHist = [k \in SeatKeys |-> NoHist]

(***************************************************************************)
(* BookingServiceV2: the records of a CreateBooking request.               *)
(*   pair, pre, others are history: the request's decrement and its        *)
(*   compensating increment.  pair is "open" from the decrement on, with   *)
(*   pre the count before it and others the seats other requests added to  *)
(*   (or took from) the key since; "tainted" once the entry was expired,   *)
(*   created or written meanwhile; at the increment it becomes "restored"  *)
(*   (count = pre + others), "readded" (tainted, and the count grew by the *)
(*   request's seats), "diverged", or "reseeded" (the increment created    *)
(*   the entry).                                                           *)
(***************************************************************************)
IdleSaga ==
    [pc |-> "idle", user |-> 0, f |-> 0, d |-> "", seats |-> 0, avail |-> 0,
     price |-> 0, ctxDone |-> FALSE, decReply |-> "", status |-> "", msg |-> "",
     bookingID |-> 0, paymentID |-> 0, pair |-> "none", pre |-> 0, others |-> 0]

NoTemp == [has |-> FALSE, user |-> 0, f |-> 0, seats |-> 0, amount |-> 0, date |-> ""]

NoBookingEntry == [has |-> FALSE, status |-> ""]

\* GenerateTempBookingCacheKey: the key is the pair (userID, flightID)
GenerateTempBookingCacheKey(u, f) == <<u, f>>

SagaKey(sg, p) == GenerateSeatCacheKey(sg[p].f, sg[p].d)

\* another request changed the count of key k by delta
NoteDelta(sg, p, k, delta) ==
    [q \in DOMAIN sg |->
        IF q # p /\ sg[q].pair \in {"open", "tainted"} /\ SagaKey(sg, q) = k
        THEN [sg[q] EXCEPT !.others = @ + delta]
        ELSE sg[q]]

\* the entry of key k was expired, created or written by a request other than p
NoteReseed(sg, p, k) ==
    [q \in DOMAIN sg |->
        IF q # p /\ sg[q].pair = "open" /\ SagaKey(sg, q) = k
        THEN [sg[q] EXCEPT !.pair = "tainted"]
        ELSE sg[q]]

\* CreateBooking returns: the response's status and message
Return(rec, status, msg) ==
    [rec EXCEPT !.pc = "done", !.status = status, !.msg = msg,
                !.avail = 0, !.decReply = "", !.ctxDone = FALSE]

SagaStep == Op("saga", NoKey, 0, NoEntry, "ok")

InitBooking ==
    /\ saga = [p \in Sagas |-> IdleSaga]
    /\ tempCache = [k \in TempKeys |-> NoTemp]
    /\ bookings = <<>>
    /\ bookingCache = [b \in Sagas |-> NoBookingEntry]

IdleSearch ==
    [pc |-> "idle", key |-> <<"", "", "">>, seats |-> 0, missed |-> FALSE,
     early |-> FALSE, call |-> 0, avail |-> 0, res |-> "", count |-> 0,
     got |-> [call |-> 0, err |-> ""]]

NoCall == [state |-> "none", err |-> ""]

NoSearchEntry == [has |-> FALSE, call |-> 0]

InitSearch ==
    /\ search = [s \in Searchers |-> IdleSearch]
    /\ searchCache = [k \in SearchKeys |-> NoSearchEntry]
    /\ searchGroup = [k \in SearchKeys |-> 0]
    /\ calls = [s \in Searchers |-> NoCall]
    /\ dbCalls = [k \in SearchKeys |-> 0]

\* a CancelBooking request: its position, the Booking GetBooking gave it, and
\* history: the durable status when it began, the requests that had returned
\* by then, whether its increment reached the flight service
IdleCancel ==
    [pc |-> "idle", op |-> "", id |-> 0, status |-> "", ctxDone |-> FALSE, res |-> "",
     durable |-> "", after |-> {}, incremented |-> FALSE]

InitCancelIdle == cancel = [c \in Cancels |-> IdleCancel]

\* the path finder at rest: no rows, no request
IdleFinder ==
    [pc |-> "idle", fl |-> {}, source |-> "", destination |-> "", date |-> 0,
     seats |-> 0, sortBy |-> "", paths |-> <<>>, found |-> <<>>, res |-> <<>>]

InitFinderIdle == finder = IdleFinder

NPay == 2
\* concurrent calls at one PaymentService

PayCalls == 1..NPay

DefaultFailureRate == 15
\* failureRate: 0.15

DefaultTimeoutRate == 5
\* timeoutRate: 0.05

\* NewPaymentService
NewPaymentService == [failureRate |-> DefaultFailureRate, timeoutRate |-> DefaultTimeoutRate]

\* a call of ProcessPayment or of a Simulate* function: its position, its
\* request, the rates it saved, the value of rand.Float64() in percent, the
\* timeoutRate it read for the sum, and its response
IdlePay ==
    [pc |-> "idle", kind |-> "", typeOk |-> TRUE, ctxDone |-> FALSE, rnd |-> 0,
     origF |-> 0, origT |-> 0, sum |-> 0, status |-> "", paymentID |-> 0]

InitPayment == paySvc = NewPaymentService /\ pay = [c \in PayCalls |-> IdlePay]

Init == InitSeat /\ InitBooking /\ InitSearch /\ InitCancelIdle /\ InitFinderIdle /\ InitPayment

(***************************************************************************)
(* FlightService: ValidateFlight with getAvailableSeats.                   *)
(***************************************************************************)
FlightQueryFailed == "failed to query flight"

\* ValidateFlight on sql.ErrNoRows: Valid false with this message, and no error
FlightNotFound == "Flight not found"

\* handler validation, then the SELECT of the flight row
ValidateFlight(r, f, s, d) ==
    /\ req[r].pc = "idle"
    /\ IF ~ValidSeatUpdate(f, s, d)
       THEN /\ lastOp' = Op("validate", NoKey, s, NoEntry, ErrInvalid)
            /\ UNCHANGED req
       ELSE IF f \notin DOMAIN flights
       THEN /\ lastOp' = Op("validate", GenerateSeatCacheKey(f, d), s, NoEntry,
                            FlightNotFound)
            /\ UNCHANGED req
       ELSE /\ req' = [req EXCEPT ![r] = [pc |-> "get", f |-> f, d |-> d,
                                          seats |-> s, avail |-> 0]]
            /\ lastOp' = Op("validate", GenerateSeatCacheKey(f, d), s,
                            seatCache[GenerateSeatCacheKey(f, d)], "pending")
    /\ UNCHANGED <<flights, seatCache, seatHist, bookingVars, searchVars, cancel, finder, payVars>>

ValidationResult(avail, seats) ==
    IF avail >= seats THEN "valid" ELSE "Not enough seats available. Requested"

\* getAvailableSeats: GET of the seat key
GetSeatCache(r) ==
    /\ req[r].pc = "get"
    /\ LET k == GenerateSeatCacheKey(req[r].f, req[r].d) IN
       IF seatCache[k].has
       THEN /\ req' = [req EXCEPT ![r] = IdleReq]
            /\ lastOp' = Op("validate", k, req[r].seats, seatCache[k],
                            ValidationResult(seatCache[k].n, req[r].seats))
       ELSE /\ req' = [req EXCEPT ![r].pc = "db"]
            /\ lastOp' = Op("validate", k, req[r].seats, seatCache[k], "pending")
    /\ UNCHANGED <<flights, seatCache, seatHist, bookingVars, searchVars, cancel, finder, payVars>>

\* getAvailableSeats: the SELECT after a cache miss
QueryAvailable(r) ==
    /\ req[r].pc = "db"
    /\ LET k == GenerateSeatCacheKey(req[r].f, req[r].d)
           q == QueryAvailableSeats(flights, req[r].f, req[r].d) IN
       IF q.found
       THEN /\ req' = [req EXCEPT ![r].pc = "set", ![r].avail = q.n]
            /\ lastOp' = Op("validate", k, req[r].seats, seatCache[k], "pending")
       ELSE /\ req' = [req EXCEPT ![r] = IdleReq]
            /\ lastOp' = Op("validate", k, req[r].seats, seatCache[k],
                            "failed to get available seats")
    /\ UNCHANGED <<flights, seatCache, seatHist, bookingVars, searchVars, cancel, finder, payVars>>

\* getAvailableSeats: SET of the value read from the table, one hour to live
SetSeatCache(r) ==
    /\ req[r].pc = "set"
    /\ LET k == GenerateSeatCacheKey(req[r].f, req[r].d) IN
       /\ seatCache' = [seatCache EXCEPT ![k] = RedisSetEx(req[r].avail)]
       /\ seatHist' = [seatHist EXCEPT ![k] = HistSeed(req[r].avail)]
       /\ lastOp' = Op("validate", k, req[r].seats, seatCache[k],
                       ValidationResult(req[r].avail, req[r].seats))
    /\ req' = [req EXCEPT ![r] = IdleReq]
    /\ UNCHANGED <<flights, bookingVars, searchVars, cancel, finder, payVars>>

(***************************************************************************)
(* FlightService: DecrementSeats and IncrementSeats behind their handlers. *)
(***************************************************************************)
DecrementSeats(f, s, d) ==
    /\ f \in KnownFlights
    /\ IF ~ValidSeatUpdate(f, s, d)
       THEN /\ lastOp' = Op("decrement", GenerateSeatCacheKey(f, d), s,
                            seatCache[GenerateSeatCacheKey(f, d)], ErrInvalid)
            /\ UNCHANGED <<seatCache, seatHist>>
       ELSE LET k == GenerateSeatCacheKey(f, d)
                out == LuaDecrement(seatCache[k], s) IN
            /\ seatCache' = [seatCache EXCEPT ![k] = out.entry]
            /\ seatHist' = [seatHist EXCEPT ![k] =
                              IF out.reply = "ok" THEN HistDec(@, s) ELSE @]
            /\ lastOp' = Op("decrement", k, s, seatCache[k], out.reply)
    /\ UNCHANGED <<flights, req, bookingVars, searchVars, cancel, finder, payVars>>

IncrementSeats(f, s, d) ==
    /\ f \in KnownFlights
    /\ IF ~ValidSeatUpdate(f, s, d)
       THEN /\ lastOp' = Op("increment", GenerateSeatCacheKey(f, d), s,
                            seatCache[GenerateSeatCacheKey(f, d)], ErrInvalid)
            /\ UNCHANGED <<seatCache, seatHist>>
       ELSE LET k == GenerateSeatCacheKey(f, d)
                e == RedisIncrBy(seatCache[k], s) IN
            /\ e.n <= MaxCount
            /\ seatCache' = [seatCache EXCEPT ![k] = e]
            /\ seatHist' = [seatHist EXCEPT ![k] = HistInc(@, s, e)]
            /\ lastOp' = Op("increment", k, s, seatCache[k], "ok")
    /\ UNCHANGED <<flights, req, bookingVars, searchVars, cancel, finder, payVars>>

\* Redis drops an entry whose time to live has run out
ExpireSeatKey(k) ==
    /\ seatCache[k].has /\ seatCache[k].ttl
    /\ seatCache' = [seatCache EXCEPT ![k] = NoEntry]
    /\ seatHist' = [seatHist EXCEPT ![k] = NoHist]
    /\ lastOp' = Op("expire", k, 0, seatCache[k], "ok")
    /\ saga' = NoteReseed(saga, 0, k)
    /\ UNCHANGED <<flights, req, tempCache, bookings, bookingCache, searchVars, cancel, finder, payVars>>

NextSeat ==
    \/ \E r \in Reqs, f \in FlightInputs, s \in SeatInputs, d \in Dates :
         ValidateFlight(r, f, s, d)
    \/ \E r \in Reqs : GetSeatCache(r)
    \/ \E r \in Reqs : QueryAvailable(r)
    \/ \E r \in Reqs : SetSeatCache(r)
    \/ \E f \in FlightInputs, s \in SeatInputs, d \in Dates : DecrementSeats(f, s, d)
    \/ \E f \in FlightInputs, s \in SeatInputs, d \in Dates : IncrementSeats(f, s, d)
    \/ \E k \in SeatKeys : ExpireSeatKey(k)

vars == <<seatVars, bookingVars, searchVars, cancel, finder, payVars>>

Spec == Init /\ [][NextSeat]_vars

(***************************************************************************)
(* BookingServiceV2.CreateBooking.  The request's context ends when its    *)
(* 60 s deadline passes or its client goes away (CtxCancel); from then on  *)
(* every call made with it fails without reaching its server.              *)
(***************************************************************************)
PaymentOutcomes == {"success", "failed", "timeout", "pending", "unreachable"}

ValidBookingRequest(u, f, s, d) == ~(u <= 0 \/ f <= 0 \/ s <= 0 \/ d = "")

\* BookingHandlers.CreateBooking: request validation, then the call of the service
CreateBooking(p, u, f, s, d) ==
    /\ saga[p].pc = "idle"
    /\ ValidBookingRequest(u, f, s, d)
    /\ saga' = [saga EXCEPT ![p] = [IdleSaga EXCEPT !.pc = "validate", !.user = u,
                                      !.f = f, !.d = d, !.seats = s]]
    /\ lastOp' = SagaStep
    /\ UNCHANGED <<flights, seatCache, req, seatHist, tempCache, bookings, bookingCache, searchVars, cancel, finder, payVars>>

CtxCancel(p) ==
    /\ saga[p].pc \notin {"idle", "done"}
    /\ ~saga[p].ctxDone
    /\ saga' = [saga EXCEPT ![p].ctxDone = TRUE]
    /\ lastOp' = SagaStep
    /\ UNCHANGED <<flights, seatCache, req, seatHist, tempCache, bookings, bookingCache, searchVars, cancel, finder, payVars>>

\* what CreateBooking does with the validation response
AfterValidation(rec, avail) ==
    IF avail >= rec.seats
    THEN [rec EXCEPT !.pc = "temp", !.avail = avail,
                     !.price = flights[rec.f].price * rec.seats]
    ELSE Return(rec, "failed", "Not enough seats available. Requested")

\* validateFlightViaHTTP: ValidateFlight at the flight service, up to the GET of the key
SagaValidate(p) ==
    /\ saga[p].pc = "validate"
    /\ LET rec == saga[p]
           k == GenerateSeatCacheKey(rec.f, rec.d) IN
       saga' = [saga EXCEPT ![p] =
                  IF rec.ctxDone THEN Return(rec, "error", "failed to validate flight")
                  ELSE IF rec.f \notin DOMAIN flights
                  THEN Return(rec, "failed", "Flight not found")
                  ELSE IF seatCache[k].has THEN AfterValidation(rec, seatCache[k].n)
                  ELSE [rec EXCEPT !.pc = "v_db"]]
    /\ lastOp' = SagaStep
    /\ UNCHANGED <<flights, seatCache, req, seatHist, tempCache, bookings, bookingCache, searchVars, cancel, finder, payVars>>

\* getAvailableSeats for the validation: the SELECT after the cache miss
SagaValidateQuery(p) ==
    /\ saga[p].pc = "v_db"
    /\ LET rec == saga[p]
           q == QueryAvailableSeats(flights, rec.f, rec.d) IN
       saga' = [saga EXCEPT ![p] =
                  IF rec.ctxDone \/ ~q.found
                  THEN Return(rec, "error", "failed to validate flight")
                  ELSE [rec EXCEPT !.pc = "v_set", !.avail = q.n]]
    /\ lastOp' = SagaStep
    /\ UNCHANGED <<flights, seatCache, req, seatHist, tempCache, bookings, bookingCache, searchVars, cancel, finder, payVars>>

\* getAvailableSeats for the validation: the SET, then the response
SagaValidateSet(p) ==
    /\ saga[p].pc = "v_set"
    /\ LET rec == saga[p]
           k == GenerateSeatCacheKey(rec.f, rec.d) IN
       IF rec.ctxDone
       THEN /\ saga' = [saga EXCEPT ![p] = Return(rec, "error", "failed to validate flight")]
            /\ lastOp' = SagaStep
            /\ UNCHANGED <<seatCache, seatHist>>
       ELSE /\ seatCache' = [seatCache EXCEPT ![k] = RedisSetEx(rec.avail)]
            /\ seatHist' = [seatHist EXCEPT ![k] = HistSeed(rec.avail)]
            /\ lastOp' = Op("validate", k, rec.seats, seatCache[k],
                            ValidationResult(rec.avail, rec.seats))
            /\ saga' = [NoteReseed(saga, p, k) EXCEPT ![p] = AfterValidation(rec, rec.avail)]
    /\ UNCHANGED <<flights, req, tempCache, bookings, bookingCache, searchVars, cancel, finder, payVars>>

\* Step 2: SetJSON of the TempBooking, 15 minutes to live
SagaTempBooking(p) ==
    /\ saga[p].pc = "temp"
    /\ LET rec == saga[p] IN
       IF rec.ctxDone
       THEN /\ saga' = [saga EXCEPT ![p] =
                          Return(rec, "error", "failed to create temporary booking")]
            /\ UNCHANGED tempCache
       ELSE /\ tempCache' = [tempCache EXCEPT
                               ![GenerateTempBookingCacheKey(rec.user, rec.f)] =
                                  [has |-> TRUE, user |-> rec.user, f |-> rec.f,
                                   seats |-> rec.seats, amount |-> rec.price,
                                   date |-> rec.d]]
            /\ saga' = [saga EXCEPT ![p].pc = "decrement"]
    /\ lastOp' = SagaStep
    /\ UNCHANGED <<flights, seatCache, req, seatHist, bookings, bookingCache, searchVars, cancel, finder, payVars>>

\* Step 3, decrementSeatsViaHTTP: the request reaches DecrementSeats, unless the
\* context has ended already
SagaDecrement(p) ==
    /\ saga[p].pc = "decrement"
    /\ LET rec == saga[p]
           k == GenerateSeatCacheKey(rec.f, rec.d)
           out == LuaDecrement(seatCache[k], rec.seats) IN
       IF rec.ctxDone
       THEN /\ saga' = [saga EXCEPT ![p].pc = "dec_resp",
                                    ![p].decReply = "failed to make seat decrement request"]
            /\ lastOp' = SagaStep
            /\ UNCHANGED <<seatCache, seatHist>>
       ELSE /\ seatCache' = [seatCache EXCEPT ![k] = out.entry]
            /\ seatHist' = [seatHist EXCEPT ![k] =
                              IF out.reply = "ok" THEN HistDec(@, rec.seats) ELSE @]
            /\ lastOp' = Op("decrement", k, rec.seats, seatCache[k], out.reply)
            /\ saga' = IF out.reply = "ok"
                       THEN [NoteDelta(saga, p, k, -rec.seats) EXCEPT
                                ![p].pc = "dec_resp", ![p].decReply = "ok",
                                ![p].pair = "open", ![p].pre = seatCache[k].n]
                       ELSE [saga EXCEPT ![p].pc = "dec_resp", ![p].decReply = out.reply]
    /\ UNCHANGED <<flights, req, tempCache, bookings, bookingCache, searchVars, cancel, finder, payVars>>

\* Redis DEL of the TempBooking with the request's context
DeleteTemp(tc, rec) ==
    IF rec.ctxDone THEN tc
    ELSE [tc EXCEPT ![GenerateTempBookingCacheKey(rec.user, rec.f)] = NoTemp]

DecrementFailedNever(rec) == FALSE

\* decrementSeatsViaHTTP returns an error: the request could not be made, the
\* context ended before the response came, or the status is not 200
DecrementFailed(rec) == rec.ctxDone \/ rec.decReply # "ok"

\* Step 3, the response: an error (a refusal, or the context ended before the
\* response came) deletes the TempBooking and returns failed
SagaDecrementResponse(p) ==
    /\ saga[p].pc = "dec_resp"
    /\ LET rec == saga[p] IN
       IF DecrementFailed(rec)
       THEN /\ tempCache' = DeleteTemp(tempCache, rec)
            /\ saga' = [saga EXCEPT ![p] = Return(rec, "failed", "Failed to reserve seats")]
       ELSE /\ saga' = [saga EXCEPT ![p].pc = "payment"]
            /\ UNCHANGED tempCache
    /\ lastOp' = SagaStep
    /\ UNCHANGED <<flights, seatCache, req, seatHist, bookings, bookingCache, searchVars, cancel, finder, payVars>>

\* processPayment with the request's context: the status of the response, or
\* no response when the call fails or the context has ended
PaymentResult(rec, outcome) == IF rec.ctxDone THEN "unreachable" ELSE outcome

PaymentBranchNoDefault(result) ==
    IF result = "unreachable" THEN "error"
    ELSE IF result = "success" THEN "success"
    ELSE "failed"

\* the error check and the switch of Step 5
PaymentBranch(result) ==
    IF result = "unreachable" THEN "error"
    ELSE IF result = "success" THEN "success"
    ELSE IF result \in {"failed", "timeout"} THEN "failed"
    ELSE "default"

\* Steps 4 and 5: processPayment and the switch on its status
SagaPayment(p, outcome) ==
    /\ saga[p].pc = "payment"
    /\ LET rec == saga[p]
           result == PaymentResult(rec, outcome)
           branch == PaymentBranch(result) IN
       /\ saga' = [saga EXCEPT ![p] =
                     IF branch = "error"
                     THEN [rec EXCEPT !.pc = "revert_inc", !.msg = "Payment failed"]
                     ELSE IF branch = "success"
                     THEN [rec EXCEPT !.pc = "persist", !.paymentID = p]
                     ELSE IF branch = "failed"
                     THEN [rec EXCEPT !.pc = "revert_inc", !.msg = result]
                     ELSE Return(rec, "pending", "Payment pending, please retry")]
       /\ lastOp' = Op("payment", NoKey, 0, NoEntry, result)
    /\ UNCHANGED <<flights, seatCache, req, seatHist, tempCache, bookings, bookingCache, searchVars, cancel, finder, payVars>>

NewBookingPending(rec) ==
    [user |-> rec.user, f |-> rec.f, seats |-> rec.seats, amount |-> rec.price,
     status |-> "pending", paymentID |-> rec.paymentID, date |-> rec.d]

\* the row createPermanentBooking inserts
NewBooking(rec) ==
    [user |-> rec.user, f |-> rec.f, seats |-> rec.seats, amount |-> rec.price,
     status |-> "confirmed", paymentID |-> rec.paymentID, date |-> rec.d]

\* createPermanentBooking: the INSERT into bookings
SagaPersist(p, dbOk) ==
    /\ saga[p].pc = "persist"
    /\ LET rec == saga[p] IN
       IF rec.ctxDone \/ ~dbOk
       THEN /\ saga' = [saga EXCEPT ![p].pc = "revert_inc",
                                    ![p].msg = "Failed to create booking"]
            /\ UNCHANGED bookings
       ELSE /\ bookings' = Append(bookings, NewBooking(rec))
            /\ saga' = [saga EXCEPT ![p].pc = "cache_booking",
                                    ![p].bookingID = Len(bookings) + 1]
    /\ lastOp' = SagaStep
    /\ UNCHANGED <<flights, seatCache, req, seatHist, tempCache, bookingCache, searchVars, cancel, finder, payVars>>

\* createPermanentBooking: SetJSON of the booking, 30 minutes to live
SagaCacheBooking(p) ==
    /\ saga[p].pc = "cache_booking"
    /\ bookingCache' = IF saga[p].ctxDone THEN bookingCache
                       ELSE [bookingCache EXCEPT ![saga[p].bookingID] =
                                [has |-> TRUE, status |-> "confirmed"]]
    /\ saga' = [saga EXCEPT ![p].pc = "del_temp"]
    /\ lastOp' = SagaStep
    /\ UNCHANGED <<flights, seatCache, req, seatHist, tempCache, bookings, searchVars, cancel, finder, payVars>>

\* success: Delete of the TempBooking, then the confirmed response
SagaConfirm(p) ==
    /\ saga[p].pc = "del_temp"
    /\ tempCache' = DeleteTemp(tempCache, saga[p])
    /\ saga' = [saga EXCEPT ![p] = Return(saga[p], "confirmed", "Booking created successfully")]
    /\ lastOp' = SagaStep
    /\ UNCHANGED <<flights, seatCache, req, seatHist, bookings, bookingCache, searchVars, cancel, finder, payVars>>

\* how the request's decrement and this increment left the key
ClosePair(rec, before, after) ==
    IF ~before.has THEN "reseeded"
    ELSE IF rec.pair = "open"
    THEN (IF after.n = rec.pre + rec.others THEN "restored" ELSE "diverged")
    ELSE (IF after.n = before.n + rec.seats THEN "readded" ELSE "diverged")

RevertSeatsOne(rec) == 1

\* the seats revertBookingOnFailure is called with: those of the request
RevertSeats(rec) == rec.seats

\* revertBookingOnFailure: incrementSeatsViaHTTP with the seats of the request;
\* a failure is logged only
SagaRevertIncrement(p) ==
    /\ saga[p].pc = "revert_inc"
    /\ LET rec == saga[p]
           k == GenerateSeatCacheKey(rec.f, rec.d)
           s == RevertSeats(rec)
           e == RedisIncrBy(seatCache[k], s) IN
       IF rec.ctxDone
       THEN /\ saga' = [saga EXCEPT ![p].pc = "revert_del"]
            /\ lastOp' = SagaStep
            /\ UNCHANGED <<seatCache, seatHist>>
       ELSE /\ seatCache' = [seatCache EXCEPT ![k] = e]
            /\ seatHist' = [seatHist EXCEPT ![k] = HistInc(@, s, e)]
            /\ lastOp' = Op("increment", k, s, seatCache[k], "ok")
            /\ saga' = [(IF seatCache[k].has THEN NoteDelta(saga, p, k, s)
                         ELSE NoteReseed(saga, p, k)) EXCEPT
                           ![p].pc = "revert_del",
                           ![p].pair = ClosePair(rec, seatCache[k], e),
                           ![p].pre = 0, ![p].others = 0]
    /\ UNCHANGED <<flights, req, tempCache, bookings, bookingCache, searchVars, cancel, finder, payVars>>

\* revertBookingOnFailure: Delete of the TempBooking, then the failed response
SagaRevertDelete(p) ==
    /\ saga[p].pc = "revert_del"
    /\ tempCache' = DeleteTemp(tempCache, saga[p])
    /\ saga' = [saga EXCEPT ![p] = Return(saga[p], "failed", saga[p].msg)]
    /\ lastOp' = SagaStep
    /\ UNCHANGED <<flights, seatCache, req, seatHist, bookings, bookingCache, searchVars, cancel, finder, payVars>>

NextSaga ==
    \/ \E p \in Sagas, u \in Users, f \in FlightInputs, s \in 1..MaxSeats, d \in Dates :
         CreateBooking(p, u, f, s, d)
    \/ \E p \in Sagas : CtxCancel(p)
    \/ \E p \in Sagas : SagaValidate(p)
    \/ \E p \in Sagas : SagaValidateQuery(p)
    \/ \E p \in Sagas : SagaValidateSet(p)
    \/ \E p \in Sagas : SagaTempBooking(p)
    \/ \E p \in Sagas : SagaDecrement(p)
    \/ \E p \in Sagas : SagaDecrementResponse(p)
    \/ \E p \in Sagas, o \in PaymentOutcomes : SagaPayment(p, o)
    \/ \E p \in Sagas, dbOk \in BOOLEAN : SagaPersist(p, dbOk)
    \/ \E p \in Sagas : SagaCacheBooking(p)
    \/ \E p \in Sagas : SagaConfirm(p)
    \/ \E p \in Sagas : SagaRevertIncrement(p)
    \/ \E p \in Sagas : SagaRevertDelete(p)
    \/ \E k \in SeatKeys : ExpireSeatKey(k)

SpecSaga == Init /\ [][NextSaga]_vars

\* every request that can take a step takes one, and keys with a time to live
\* run out
FairSaga == SpecSaga /\ WF_vars(NextSaga)

\* the requests of one user at the booking service
NextOneUser ==
    \/ \E p \in Sagas, f \in FlightInputs, s \in 1..MaxSeats, d \in Dates :
         CreateBooking(p, 1, f, s, d)
    \/ \E p \in Sagas : CtxCancel(p)
    \/ \E p \in Sagas : SagaValidate(p)
    \/ \E p \in Sagas : SagaValidateQuery(p)
    \/ \E p \in Sagas : SagaValidateSet(p)
    \/ \E p \in Sagas : SagaTempBooking(p)
    \/ \E p \in Sagas : SagaDecrement(p)
    \/ \E p \in Sagas : SagaDecrementResponse(p)
    \/ \E p \in Sagas, o \in PaymentOutcomes : SagaPayment(p, o)
    \/ \E p \in Sagas, dbOk \in BOOLEAN : SagaPersist(p, dbOk)
    \/ \E p \in Sagas : SagaCacheBooking(p)
    \/ \E p \in Sagas : SagaConfirm(p)
    \/ \E p \in Sagas : SagaRevertIncrement(p)
    \/ \E p \in Sagas : SagaRevertDelete(p)
    \/ \E k \in SeatKeys : ExpireSeatKey(k)

SpecOneUser == Init /\ [][NextOneUser]_vars

\* every call of a request returns: a request that can take a step takes one
FairOneUser == SpecOneUser /\ WF_vars(NextOneUser)

(***************************************************************************)
(* BookingServiceV2.GetBooking and CancelBooking.  The bookings table is   *)
(* the one the statements of the service address (with a date column); its *)
(* status column admits pending, confirmed, failed and cancelled.          *)
(***************************************************************************)
BookingStatuses == {"pending", "confirmed", "failed", "cancelled"}

\* a booking row and its copy in the cache, as the service may find them
InitCancel ==
    /\ \E b \in 0..MaxBooked :
         flights = [f \in KnownFlights |->
                      [total |-> TotalSeats, booked |-> b, price |-> FlightPrice,
                       date |-> "2024-02-15"]]
    /\ \E e \in {NoEntry, RedisSetEx(0), RedisSetEx(1)} :
         /\ seatCache = [k \in SeatKeys |-> e]
         /\ seatHist = [k \in SeatKeys |-> IF e.has THEN HistSeed(e.n) ELSE NoHist]
    /\ req = [r \in Reqs |-> IdleReq]
    /\ lastOp = Op("init", NoKey, 0, NoEntry, "ok")
    /\ saga = [p \in Sagas |-> IdleSaga]
    /\ tempCache = [k \in TempKeys |-> NoTemp]
    /\ \E st \in BookingStatuses, s \in 1..MaxSeats, cached \in BOOLEAN :
         /\ bookings = <<[user |-> 1, f |-> 1, seats |-> s, amount |-> FlightPrice * s,
                          status |-> st, paymentID |-> 1, date |-> "2024-02-15"]>>
         /\ bookingCache = [b \in Sagas |->
                              IF b = 1 /\ cached THEN [has |-> TRUE, status |-> st]
                              ELSE NoBookingEntry]
    /\ InitSearch
    /\ InitCancelIdle
    /\ InitFinderIdle
    /\ InitPayment

CanCancelAny(status) == TRUE

\* Booking.CanCancel
CanCancel(status) == status = "pending" \/ status = "confirmed"

\* BookingHandlers.GetBooking / CancelBooking: the check of the id
ValidBookingID(id) == ~(id <= 0)

\* the durable status of booking id
DurableStatus(bs, id) == IF id \in 1..Len(bs) THEN bs[id].status ELSE "none"

\* a request returns
Finish(rec, res) == [rec EXCEPT !.pc = "done", !.res = res, !.ctxDone = FALSE]

\* the record of a request that begins
NewRequest(c, op, id) ==
    [IdleCancel EXCEPT
       !.pc = "get", !.op = op, !.id = id,
       !.durable = DurableStatus(bookings, id),
       !.after = {o \in Cancels : /\ cancel[o].pc = "done"
                                  /\ cancel[o].op = "cancel"
                                  /\ cancel[o].id = id}]

\* BookingHandlers.CancelBooking: PUT /api/bookings/{id}/cancel
CancelBooking(c, id) ==
    /\ cancel[c].pc = "idle"
    /\ ValidBookingID(id)
    /\ cancel' = [cancel EXCEPT ![c] = NewRequest(c, "cancel", id)]
    /\ UNCHANGED <<seatVars, bookingVars, searchVars, finder, payVars>>

\* BookingHandlers.GetBooking: GET /api/bookings/{id}
GetBooking(c, id) ==
    /\ cancel[c].pc = "idle"
    /\ ValidBookingID(id)
    /\ cancel' = [cancel EXCEPT ![c] = NewRequest(c, "get", id)]
    /\ UNCHANGED <<seatVars, bookingVars, searchVars, finder, payVars>>

\* the deadline of the request passes, or its client goes away
CancelCtx(c) ==
    /\ cancel[c].pc \notin {"idle", "done"}
    /\ ~cancel[c].ctxDone
    /\ cancel' = [cancel EXCEPT ![c].ctxDone = TRUE]
    /\ UNCHANGED <<seatVars, bookingVars, searchVars, finder, payVars>>

\* what the request does with the Booking GetBooking returned
AfterGet(rec, status) ==
    IF rec.op = "get" THEN Finish([rec EXCEPT !.status = status], "ok")
    ELSE IF ~CanCancel(status)
    THEN Finish([rec EXCEPT !.status = status],
                "booking cannot be cancelled in current status")
    ELSE [rec EXCEPT !.pc = "update", !.status = status]

\* GetBooking: GetJSON of the booking key
BookingCacheGet(c) ==
    /\ cancel[c].pc = "get"
    /\ LET rec == cancel[c] IN
       cancel' = [cancel EXCEPT ![c] =
                    IF rec.ctxDone THEN Finish(rec, "failed to get booking")
                    ELSE IF bookingCache[rec.id].has
                    THEN AfterGet(rec, bookingCache[rec.id].status)
                    ELSE [rec EXCEPT !.pc = "get_db"]]
    /\ UNCHANGED <<seatVars, bookingVars, searchVars, finder, payVars>>

\* GetBooking: the SELECT after the cache miss
BookingQuery(c) ==
    /\ cancel[c].pc = "get_db"
    /\ LET rec == cancel[c] IN
       cancel' = [cancel EXCEPT ![c] =
                    IF rec.ctxDone THEN Finish(rec, "failed to get booking")
                    ELSE IF rec.id \notin 1..Len(bookings)
                    THEN Finish(rec, "booking not found")
                    ELSE [rec EXCEPT !.pc = "get_set", !.status = bookings[rec.id].status]]
    /\ UNCHANGED <<seatVars, bookingVars, searchVars, finder, payVars>>

\* GetBooking: SetJSON of the row read, 30 minutes to live (a failure is logged)
BookingCacheSet(c) ==
    /\ cancel[c].pc = "get_set"
    /\ LET rec == cancel[c] IN
       /\ bookingCache' = IF rec.ctxDone THEN bookingCache
                          ELSE [bookingCache EXCEPT ![rec.id] =
                                   [has |-> TRUE, status |-> rec.status]]
       /\ cancel' = [cancel EXCEPT ![c] = AfterGet(rec, rec.status)]
    /\ UNCHANGED <<seatVars, saga, tempCache, bookings, searchVars, finder, payVars>>

\* CancelBooking: UPDATE bookings SET status = 'cancelled' WHERE id = $2
BookingUpdate(c, dbOk) ==
    /\ cancel[c].pc = "update"
    /\ LET rec == cancel[c] IN
       IF rec.ctxDone \/ ~dbOk
       THEN /\ cancel' = [cancel EXCEPT ![c] =
                            Finish(rec, "failed to update booking status")]
            /\ UNCHANGED bookings
       ELSE /\ bookings' = [bookings EXCEPT ![rec.id].status = "cancelled"]
            /\ cancel' = [cancel EXCEPT ![c].pc = "increment"]
    /\ UNCHANGED <<seatVars, saga, tempCache, bookingCache, searchVars, finder, payVars>>

AfterIncrementPropagating(rec, failed) ==
    IF failed THEN Finish(rec, "failed to increment seats")
    ELSE [rec EXCEPT !.pc = "del", !.incremented = TRUE]

\* CancelBooking after incrementSeatsViaHTTP: an error is logged, not returned
AfterIncrement(rec, failed) ==
    [rec EXCEPT !.pc = "del", !.incremented = ~failed]

\* the seats CancelBooking gives back: booking.Seats
CancelSeats(bs, id) == bs[id].seats

\* CancelBooking: incrementSeatsViaHTTP for the booking's flight, seats and
\* date; a failure is logged only
BookingIncrement(c, ok) ==
    /\ cancel[c].pc = "increment"
    /\ LET rec == cancel[c]
           k == GenerateSeatCacheKey(bookings[rec.id].f, bookings[rec.id].date)
           s == CancelSeats(bookings, rec.id)
           e == RedisIncrBy(seatCache[k], s) IN
       IF rec.ctxDone \/ ~ok
       THEN /\ cancel' = [cancel EXCEPT ![c] = AfterIncrement(rec, TRUE)]
            /\ lastOp' = Op("increment", k, s, seatCache[k], "failed")
            /\ UNCHANGED <<seatCache, seatHist>>
       ELSE /\ seatCache' = [seatCache EXCEPT ![k] = e]
            /\ seatHist' = [seatHist EXCEPT ![k] = HistInc(@, s, e)]
            /\ lastOp' = Op("increment", k, s, seatCache[k], "ok")
            /\ cancel' = [cancel EXCEPT ![c] = AfterIncrement(rec, FALSE)]
    /\ UNCHANGED <<flights, req, bookingVars, searchVars, finder, payVars>>

\* CancelBooking: Delete of the booking key (its error is dropped), then nil
BookingCacheDelete(c) ==
    /\ cancel[c].pc = "del"
    /\ bookingCache' = IF cancel[c].ctxDone THEN bookingCache
                       ELSE [bookingCache EXCEPT ![cancel[c].id] = NoBookingEntry]
    /\ cancel' = [cancel EXCEPT ![c] = Finish(cancel[c], "ok")]
    /\ UNCHANGED <<seatVars, saga, tempCache, bookings, searchVars, finder, payVars>>

\* Redis drops a booking entry whose 30 minutes have run out
ExpireBookingKey(b) ==
    /\ bookingCache[b].has
    /\ bookingCache' = [bookingCache EXCEPT ![b] = NoBookingEntry]
    /\ UNCHANGED <<seatVars, saga, tempCache, bookings, searchVars, cancel, finder, payVars>>

NextCancel ==
    \/ \E c \in Cancels, id \in BookingInputs : CancelBooking(c, id)
    \/ \E c \in Cancels, id \in BookingInputs : GetBooking(c, id)
    \/ \E c \in Cancels : CancelCtx(c)
    \/ \E c \in Cancels : BookingCacheGet(c)
    \/ \E c \in Cancels : BookingQuery(c)
    \/ \E c \in Cancels : BookingCacheSet(c)
    \/ \E c \in Cancels, dbOk \in BOOLEAN : BookingUpdate(c, dbOk)
    \/ \E c \in Cancels, ok \in BOOLEAN : BookingIncrement(c, ok)
    \/ \E c \in Cancels : BookingCacheDelete(c)
    \/ \E b \in Sagas : ExpireBookingKey(b)

SpecCancel == InitCancel /\ [][NextCancel]_vars

\* BookingHandlers.GetBooking again, by a client whose GetBooking has returned
GetBookingAgain(c, id) ==
    /\ cancel[c].pc = "done" /\ cancel[c].op = "get"
    /\ ValidBookingID(id)
    /\ cancel' = [cancel EXCEPT ![c] = NewRequest(c, "get", id)]
    /\ UNCHANGED <<seatVars, bookingVars, searchVars, finder, payVars>>

\* cancellations and reads of a booking whose contexts stay live and whose
\* cache entry does not run out meanwhile
NextRace ==
    \/ \E c \in Cancels, id \in BookingInputs : CancelBooking(c, id)
    \/ \E c \in Cancels, id \in BookingInputs : GetBooking(c, id)
    \/ \E c \in Cancels, id \in BookingInputs : GetBookingAgain(c, id)
    \/ \E c \in Cancels : BookingCacheGet(c)
    \/ \E c \in Cancels : BookingQuery(c)
    \/ \E c \in Cancels : BookingCacheSet(c)
    \/ \E c \in Cancels, dbOk \in BOOLEAN : BookingUpdate(c, dbOk)
    \/ \E c \in Cancels, ok \in BOOLEAN : BookingIncrement(c, ok)
    \/ \E c \in Cancels : BookingCacheDelete(c)

SpecRace == InitCancel /\ [][NextRace]_vars

(***************************************************************************)
(* FlightService.SearchFlights: search cache, singleflight group, filter.  *)
(***************************************************************************)
\* GenerateSearchCacheKey and the singleflight key: (source, destination, date)
GenerateSearchCacheKey(src, dst, d) == <<src, dst, d>>

\* searchFlightsFromDB: the ids of the flights on the paths of the route
CandidateFlights(key) == IF key[2] = "BOM" THEN {f \in KnownFlights : f = 1} ELSE {}

\* a response: the paths left by the filter (or the error)
Respond(rec, res, count) ==
    [rec EXCEPT !.pc = "done", !.res = res, !.count = count, !.avail = 0]

\* the request starts: GetJSON of the search key
SearchFlights(s, key, seats) ==
    /\ search[s].pc = "idle"
    /\ search' = [search EXCEPT ![s] =
                    [IdleSearch EXCEPT
                       !.pc = IF searchCache[key].has THEN "filter" ELSE "do",
                       !.key = key, !.seats = seats,
                       !.missed = ~searchCache[key].has,
                       !.call = searchCache[key].call,
                       !.early = \A o \in Searchers :
                                    ~(search[o].pc = "done" /\ search[o].key = key)]]
    /\ UNCHANGED <<seatVars, bookingVars, searchCache, searchGroup, calls, dbCalls, cancel, finder, payVars>>

InFlightNever(group, key) == FALSE

\* singleflight.Group.Do: a call for the key is in flight
InFlight(group, key) == group[key] # 0

\* searchGroup.Do: join the call in flight for the key, or start one
SingleflightDo(s) ==
    /\ search[s].pc = "do"
    /\ LET key == search[s].key IN
       IF InFlight(searchGroup, key)
       THEN /\ search' = [search EXCEPT ![s].pc = "wait", ![s].call = searchGroup[key]]
            /\ UNCHANGED <<searchGroup, calls>>
       ELSE /\ search' = [search EXCEPT ![s].pc = "exec", ![s].call = s]
            /\ searchGroup' = [searchGroup EXCEPT ![key] = s]
            /\ calls' = [calls EXCEPT ![s] = [state |-> "running", err |-> ""]]
    /\ UNCHANGED <<seatVars, bookingVars, searchCache, dbCalls, cancel, finder, payVars>>

\* how searchFlightsFromDB ends: with the flights, with a failed query, or
\* because the context of the request that started the call has ended
SearchErrors == {"", "failed to find flight paths", "context canceled"}

\* the function given to Do: searchFlightsFromDB, run by the starter of the call
SearchFlightsFromDB(s, err) ==
    /\ search[s].pc = "exec"
    /\ dbCalls' = [dbCalls EXCEPT ![search[s].key] = @ + 1]
    /\ calls' = [calls EXCEPT ![s] = [state |-> "returned", err |-> err]]
    /\ search' = [search EXCEPT ![s].pc = "finish"]
    /\ UNCHANGED <<seatVars, bookingVars, searchCache, searchGroup, cancel, finder, payVars>>

DoResultFresh(cs, c) == [call |-> c, err |-> ""]

\* what Do returns to every caller of call c: the value and error of the one
\* execution of the function
DoResult(cs, c) == [call |-> c, err |-> cs[c].err]

\* what SearchFlights does with the outcome of Do
AfterDo(rec, out) ==
    IF out.err # "" THEN Respond([rec EXCEPT !.got = out], "failed to search flights", 0)
    ELSE [rec EXCEPT !.pc = "set", !.got = out]

\* Do, at the starter: the call leaves the group and its waiters are released
SingleflightFinish(s) ==
    /\ search[s].pc = "finish"
    /\ searchGroup' = [searchGroup EXCEPT ![search[s].key] = 0]
    /\ calls' = [calls EXCEPT ![s].state = "done"]
    /\ search' = [search EXCEPT ![s] = AfterDo(search[s], DoResult(calls, s))]
    /\ UNCHANGED <<seatVars, bookingVars, searchCache, dbCalls, cancel, finder, payVars>>

\* Do, at a request that joined: it returns the call's outcome
SingleflightJoined(s) ==
    /\ search[s].pc = "wait"
    /\ calls[search[s].call].state = "done"
    /\ search' = [search EXCEPT ![s] = AfterDo(search[s], DoResult(calls, search[s].call))]
    /\ UNCHANGED <<seatVars, bookingVars, searchCache, searchGroup, calls, dbCalls, cancel, finder, payVars>>

\* SetJSON of the flights found, two hours to live
CacheSearchResult(s) ==
    /\ search[s].pc = "set"
    /\ searchCache' = [searchCache EXCEPT ![search[s].key] =
                          [has |-> TRUE, call |-> search[s].call]]
    /\ search' = [search EXCEPT ![s].pc = "filter"]
    /\ UNCHANGED <<seatVars, bookingVars, searchGroup, calls, dbCalls, cancel, finder, payVars>>

FilterCountAll(avail, seats) == 1

\* the paths filterAndSortFlights keeps: one per flight with enough seats
FilterCount(avail, seats) == IF avail >= seats THEN 1 ELSE 0

\* filterAndSortFlights: getAvailableSeats of the flight found, the GET
FilterGet(s) ==
    /\ search[s].pc = "filter"
    /\ LET rec == search[s]
           fs == CandidateFlights(rec.key) IN
       IF fs = {} THEN search' = [search EXCEPT ![s] = Respond(rec, "ok", 0)]
       ELSE LET f == CHOOSE x \in fs : TRUE
                k == GenerateSeatCacheKey(f, rec.key[3]) IN
            search' = [search EXCEPT ![s] =
                         IF seatCache[k].has
                         THEN Respond(rec, "ok", FilterCount(seatCache[k].n, rec.seats))
                         ELSE [rec EXCEPT !.pc = "f_db"]]
    /\ UNCHANGED <<seatVars, bookingVars, searchCache, searchGroup, calls, dbCalls, cancel, finder, payVars>>

\* filterAndSortFlights: getAvailableSeats, the SELECT after the cache miss
FilterQuery(s) ==
    /\ search[s].pc = "f_db"
    /\ LET rec == search[s]
           f == CHOOSE x \in CandidateFlights(rec.key) : TRUE
           q == QueryAvailableSeats(flights, f, rec.key[3]) IN
       search' = [search EXCEPT ![s] =
                    IF q.found THEN [rec EXCEPT !.pc = "f_set", !.avail = q.n]
                    ELSE Respond(rec, "ok", 0)]
    /\ UNCHANGED <<seatVars, bookingVars, searchCache, searchGroup, calls, dbCalls, cancel, finder, payVars>>

\* filterAndSortFlights: getAvailableSeats, the SET, and the response
FilterSet(s) ==
    /\ search[s].pc = "f_set"
    /\ LET rec == search[s]
           f == CHOOSE x \in CandidateFlights(rec.key) : TRUE
           k == GenerateSeatCacheKey(f, rec.key[3]) IN
       /\ seatCache' = [seatCache EXCEPT ![k] = RedisSetEx(rec.avail)]
       /\ seatHist' = [seatHist EXCEPT ![k] = HistSeed(rec.avail)]
       /\ lastOp' = Op("search", k, rec.seats, seatCache[k], "ok")
       /\ search' = [search EXCEPT ![s] =
                       Respond(rec, "ok", FilterCount(rec.avail, rec.seats))]
    /\ UNCHANGED <<flights, req, bookingVars, searchCache, searchGroup, calls, dbCalls, cancel, finder, payVars>>

\* Redis drops a search entry whose two hours have run out
ExpireSearchKey(key) ==
    /\ searchCache[key].has
    /\ searchCache' = [searchCache EXCEPT ![key] = NoSearchEntry]
    /\ UNCHANGED <<seatVars, bookingVars, search, searchGroup, calls, dbCalls, cancel, finder, payVars>>

NextSearch ==
    \/ \E s \in Searchers, key \in SearchKeys, n \in 1..MaxSeats : SearchFlights(s, key, n)
    \/ \E s \in Searchers : SingleflightDo(s)
    \/ \E s \in Searchers, err \in SearchErrors : SearchFlightsFromDB(s, err)
    \/ \E s \in Searchers : SingleflightFinish(s)
    \/ \E s \in Searchers : SingleflightJoined(s)
    \/ \E s \in Searchers : CacheSearchResult(s)
    \/ \E s \in Searchers : FilterGet(s)
    \/ \E s \in Searchers : FilterQuery(s)
    \/ \E s \in Searchers : FilterSet(s)
    \/ \E key \in SearchKeys : ExpireSearchKey(key)

SpecSearch == Init /\ [][NextSearch]_vars

NLive == 2
\* SearchFlights requests that run while the seat counts change

LiveSearchers == 1..NLive

\* searches at the flight service while bookings, compensations and
\* cancellations decrement and increment the seat keys
NextLive ==
    \/ \E s \in LiveSearchers, key \in SearchKeys, n \in 1..MaxSeats : SearchFlights(s, key, n)
    \/ \E s \in LiveSearchers : SingleflightDo(s)
    \/ \E s \in LiveSearchers, err \in SearchErrors : SearchFlightsFromDB(s, err)
    \/ \E s \in LiveSearchers : SingleflightFinish(s)
    \/ \E s \in LiveSearchers : SingleflightJoined(s)
    \/ \E s \in LiveSearchers : CacheSearchResult(s)
    \/ \E s \in LiveSearchers : FilterGet(s)
    \/ \E s \in LiveSearchers : FilterQuery(s)
    \/ \E s \in LiveSearchers : FilterSet(s)
    \/ \E key \in SearchKeys : ExpireSearchKey(key)
    \/ \E f \in KnownFlights, n \in 1..MaxSeats, d \in Dates : DecrementSeats(f, n, d)
    \/ \E f \in KnownFlights, n \in 1..MaxSeats, d \in Dates : IncrementSeats(f, n, d)
    \/ \E k \in SeatKeys : ExpireSeatKey(k)

SpecLive == Init /\ [][NextLive]_vars

(***************************************************************************)
(* FlightService.findFlightPaths, searchFlightsFromDB and                  *)
(* filterAndSortFlights over the rows of the flights table.  Times are in  *)
(* hours from the start of day 0; a row is a record of the columns read.   *)
(***************************************************************************)
Flight(id, src, dst, dep, arr, booked, price) ==
    [id |-> id, source |-> src, destination |-> dst, dep |-> dep, arr |-> arr,
     total |-> TotalSeats, booked |-> booked, price |-> price]

\* rows the table may hold: a direct flight, connections through one, two and
\* three cities, connections outside the window, a flight of the next day
Catalog ==
    { Flight(1, "DEL", "BLR", 9, 12, 0, 12),
      Flight(2, "DEL", "HYD", 7, 9, 0, 9),
      Flight(3, "HYD", "BLR", 10, 11, 1, 5),
      Flight(4, "HYD", "BOM", 10, 11, 0, 4),
      Flight(5, "BOM", "BLR", 12, 13, 0, 6),
      Flight(6, "HYD", "BLR", 14, 15, 0, 3),
      Flight(7, "BOM", "CCU", 12, 13, 0, 2),
      Flight(8, "CCU", "BLR", 14, 15, 0, 2),
      Flight(9, "HYD", "BLR", 8, 9, 0, 5),
      Flight(10, "DEL", "BLR", 33, 36, 0, 7),
      Flight(11, "DEL", "BLR", 15, 17, 0, 13) }

FinderDestinations == {"BLR", "HYD"}
\* destinations a search may ask for (the source is DEL)

SortByInputs == {"cheapest", "fastest", ""}

ConnectionWindow == 4
\* INTERVAL '4 hours'

MaxStops == 3
\* for stops := 1; stops <= 3; stops++

TopPaths == 20
\* validPaths[:20]

\* DATE(departure_time)
DateOf(t) == t \div 24

\* DATE(departure_time) = $3 AND (total_seats - booked_seats) >= $4
Bookable(f, date, seats) == DateOf(f.dep) = date /\ f.total - f.booked >= seats

LastLeg(legs) == legs[Len(legs)]

\* FlightPath with CalculateTotalPrice, CalculateTotalTime (minutes), CalculateStops
RECURSIVE SumPrice(_)
SumPrice(legs) == IF legs = <<>> THEN 0 ELSE Head(legs).price + SumPrice(Tail(legs))

NewPath(legs) ==
    [flights |-> legs,
     totalPrice |-> SumPrice(legs),
     totalTime |-> IF Len(legs) = 0 THEN 0 ELSE (LastLeg(legs).arr - legs[1].dep) * 60,
     stops |-> IF Len(legs) <= 1 THEN 0 ELSE Len(legs) - 1]

\* rows in ascending order of a column (ORDER BY departure_time)
RECURSIVE OrderByDeparture(_)
OrderByDeparture(S) ==
    IF S = {} THEN <<>>
    ELSE LET f == CHOOSE x \in S : \A y \in S : x.dep <= y.dep
         IN  <<f>> \o OrderByDeparture(S \ {f})

\* the values of a Go map as a slice; the order of iteration is not fixed by
\* the language, one order is taken
RECURSIVE MapValues(_)
MapValues(S) ==
    IF S = {} THEN <<>>
    ELSE LET x == CHOOSE y \in S : TRUE IN <<x>> \o MapValues(S \ {x})

\* findDirectFlights
FindDirectFlights(fl, src, dst, date, seats) ==
    OrderByDeparture({f \in fl : /\ f.source = src /\ f.destination = dst
                                 /\ Bookable(f, date, seats)})

\* base case of the recursive query: the bookable flights that leave the source
CteBase(fl, src, date, seats) ==
    {<<f>> : f \in {g \in fl : g.source = src /\ Bookable(g, date, seats)}}

ConnectsUnordered(legs, f, dst, date, seats) ==
    /\ LastLeg(legs).destination = f.source
    /\ f.destination = dst
    /\ Bookable(f, date, seats)
    /\ f.dep <= LastLeg(legs).arr + ConnectionWindow

\* the join and the WHERE of the recursive case
Connects(legs, f, dst, date, seats) ==
    /\ LastLeg(legs).destination = f.source
    /\ f.destination = dst
    /\ Bookable(f, date, seats)
    /\ f.dep > LastLeg(legs).arr
    /\ f.dep <= LastLeg(legs).arr + ConnectionWindow

\* one round of the recursive case over the rows of the round before
CteStep(fl, rows, dst, date, seats, maxStops) ==
    UNION { {Append(legs, f) : f \in {g \in fl : Connects(legs, g, dst, date, seats)}}
            : legs \in {r \in rows : Len(r) < maxStops} }

\* the rows of flight_paths: the base case and the rounds of the recursive case
RECURSIVE CteRows(_, _, _, _, _, _)
CteRows(fl, rows, dst, date, seats, maxStops) ==
    IF rows = {} THEN {}
    ELSE rows \cup CteRows(fl, CteStep(fl, rows, dst, date, seats, maxStops),
                           dst, date, seats, maxStops)

\* findMultiStopFlights: the rows that end at the destination, one path per
\* key of flight ids
FindMultiStopFlights(fl, src, dst, date, seats, maxStops) ==
    LET rows == CteRows(fl, CteBase(fl, src, date, seats), dst, date, seats, maxStops)
        ending == {r \in rows : LastLeg(r).destination = dst}
    IN  MapValues({NewPath(r) : r \in ending})

\* the paths of the direct flights
RECURSIVE DirectPaths(_)
DirectPaths(fs) ==
    IF fs = <<>> THEN <<>> ELSE <<NewPath(<<Head(fs)>>)>> \o DirectPaths(Tail(fs))

\* the multi-stop queries for stops = from .. MaxStops, appended
RECURSIVE MultiStopRounds(_, _, _, _, _, _)
MultiStopRounds(fl, src, dst, date, seats, from) ==
    IF from > MaxStops THEN <<>>
    ELSE FindMultiStopFlights(fl, src, dst, date, seats, from)
         \o MultiStopRounds(fl, src, dst, date, seats, from + 1)

\* findFlightPaths
FindFlightPathsOf(fl, src, dst, date, seats) ==
    DirectPaths(FindDirectFlights(fl, src, dst, date, seats))
    \o MultiStopRounds(fl, src, dst, date, seats, 1)

\* searchFlightsFromDB: the flights of the paths, once each (flightMap by id)
RECURSIVE PathFlights(_)
PathFlights(paths) ==
    IF paths = <<>> THEN {}
    ELSE {Head(paths).flights[k] : k \in DOMAIN Head(paths).flights}
         \cup PathFlights(Tail(paths))

UniqueFlights(paths) == MapValues(PathFlights(paths))

\* getAvailableSeats of a flight on its own date when the seat key is absent:
\* total_seats - booked_seats of the row
AvailableSeats(f) == f.total - f.booked

SortKeyPrice(path, sortBy) == path.totalPrice

\* the less function of sortFlightPaths
SortKey(path, sortBy) == IF sortBy = "fastest" THEN path.totalTime ELSE path.totalPrice

DropAt(s, i) == SubSeq(s, 1, i - 1) \o SubSeq(s, i + 1, Len(s))

\* sortFlightPaths: ascending by the key; sort.Slice fixes no order among
\* equal keys, one order is taken
RECURSIVE SortFlightPaths(_, _)
SortFlightPaths(paths, sortBy) ==
    IF paths = <<>> THEN <<>>
    ELSE LET i == CHOOSE k \in DOMAIN paths :
                      \A j \in DOMAIN paths : SortKey(paths[k], sortBy) <= SortKey(paths[j], sortBy)
         IN  <<paths[i]>> \o SortFlightPaths(DropAt(paths, i), sortBy)

\* the loop of filterAndSortFlights: one path of one flight for every flight
\* with the requested seats
RECURSIVE ValidPaths(_, _)
ValidPaths(fs, requestedSeats) ==
    IF fs = <<>> THEN <<>>
    ELSE (IF AvailableSeats(Head(fs)) >= requestedSeats
          THEN <<NewPath(<<Head(fs)>>)>> ELSE <<>>)
         \o ValidPaths(Tail(fs), requestedSeats)

\* filterAndSortFlights
FilterAndSortFlights(fs, requestedSeats, sortBy) ==
    LET sorted == SortFlightPaths(ValidPaths(fs, requestedSeats), sortBy)
    IN  IF Len(sorted) > TopPaths THEN SubSeq(sorted, 1, TopPaths) ELSE sorted

\* the flights table and one search of it
InitPaths ==
    /\ flights = [f \in KnownFlights |->
                    [total |-> TotalSeats, booked |-> 0, price |-> FlightPrice,
                     date |-> "2024-02-15"]]
    /\ seatCache = [k \in SeatKeys |-> NoEntry]
    /\ req = [r \in Reqs |-> IdleReq]
    /\ lastOp = Op("init", NoKey, 0, NoEntry, "ok")
    /\ seatHist = [k \in SeatKeys |-> NoHist]
    /\ InitBooking
    /\ InitSearch
    /\ InitCancelIdle
    /\ InitPayment
    /\ \E fl \in SUBSET Catalog, dst \in FinderDestinations :
         finder = [IdleFinder EXCEPT !.fl = fl, !.source = "DEL", !.destination = dst]

\* findFlightPaths(source, destination, date, seats)
FindFlightPaths(seats) ==
    /\ finder.pc = "idle"
    /\ finder' = [finder EXCEPT
                    !.pc = "paths", !.seats = seats,
                    !.paths = FindFlightPathsOf(finder.fl, finder.source, finder.destination,
                                                finder.date, seats)]
    /\ UNCHANGED <<seatVars, bookingVars, searchVars, cancel, payVars>>

\* searchFlightsFromDB(source, destination, date): the paths for one seat,
\* then their flights
FindFlights ==
    /\ finder.pc = "idle"
    /\ LET paths == FindFlightPathsOf(finder.fl, finder.source, finder.destination,
                                      finder.date, 1)
       IN  finder' = [finder EXCEPT !.pc = "found", !.paths = paths,
                                    !.found = UniqueFlights(paths)]
    /\ UNCHANGED <<seatVars, bookingVars, searchVars, cancel, payVars>>

\* SearchFlights after the flights are known: filterAndSortFlights(flights,
\* req.Seats, req.SortBy) is the response
FilterAndSort(seats, sortBy) ==
    /\ finder.pc = "found"
    /\ finder' = [finder EXCEPT
                    !.pc = "done", !.seats = seats, !.sortBy = sortBy,
                    !.res = FilterAndSortFlights(finder.found, seats, sortBy)]
    /\ UNCHANGED <<seatVars, bookingVars, searchVars, cancel, payVars>>

NextPaths ==
    \/ \E seats \in 1..MaxSeats : FindFlightPaths(seats)
    \/ FindFlights
    \/ \E seats \in 1..MaxSeats, sortBy \in SortByInputs : FilterAndSort(seats, sortBy)

SpecPaths == InitPaths /\ [][NextPaths]_vars

(***************************************************************************)
(* PaymentService: ProcessPayment and the Simulate* functions.  The rates  *)
(* are fields of the one service value, read and written without a lock;   *)
(* every read and every write of a field is a step.                        *)
(***************************************************************************)
PayKinds == {"process", "failure", "timeout", "success"}

RandomValues == {0, 10, 50}
\* rand.Float64() in percent: under the default timeoutRate, under the sum of
\* the default rates, above it

\* the rates a Simulate* function sets
SimulatedFailureRate(kind) == IF kind = "failure" THEN 100 ELSE 0

SimulatedTimeoutRate(kind) == IF kind = "timeout" THEN 100 ELSE 0

\* where a call goes when ProcessPayment has its response: the deferred
\* restore of a Simulate* function, or the return
AfterProcess(kind) ==
    CASE kind = "process" -> "done"
      [] kind = "timeout" -> "restT"
      [] OTHER -> "restF"

Responded(rec, status, id) ==
    [rec EXCEPT !.pc = AfterProcess(rec.kind), !.status = status, !.paymentID = id]

\* a handler calls ProcessPayment or a Simulate* function
PaymentRequest(c, kind, typeOk, rnd) ==
    /\ pay[c].pc = "idle"
    /\ pay' = [pay EXCEPT ![c] =
                 [IdlePay EXCEPT
                    !.pc = CASE kind = "process" -> "validate"
                             [] kind = "timeout" -> "saveT"
                             [] OTHER -> "saveF",
                    !.kind = kind, !.typeOk = typeOk, !.rnd = rnd]]
    /\ UNCHANGED <<seatVars, bookingVars, searchVars, cancel, finder, paySvc>>

\* original... := ps.failureRate / ps.timeoutRate
SaveRate(c) ==
    /\ pay[c].pc \in {"saveF", "saveT"}
    /\ pay' = [pay EXCEPT ![c] =
                 IF pay[c].pc = "saveF"
                 THEN [pay[c] EXCEPT !.pc = "saveT", !.origF = paySvc.failureRate]
                 ELSE [pay[c] EXCEPT !.pc = IF pay[c].kind = "timeout" THEN "setT" ELSE "setF",
                                !.origT = paySvc.timeoutRate]]
    /\ UNCHANGED <<seatVars, bookingVars, searchVars, cancel, finder, paySvc>>

\* ps.failureRate = ... / ps.timeoutRate = ...
SetRate(c) ==
    /\ pay[c].pc \in {"setF", "setT"}
    /\ IF pay[c].pc = "setF"
       THEN /\ paySvc' = [paySvc EXCEPT !.failureRate = SimulatedFailureRate(pay[c].kind)]
            /\ pay' = [pay EXCEPT ![c].pc = "setT"]
       ELSE /\ paySvc' = [paySvc EXCEPT !.timeoutRate = SimulatedTimeoutRate(pay[c].kind)]
            /\ pay' = [pay EXCEPT ![c].pc = "validate"]
    /\ UNCHANGED <<seatVars, bookingVars, searchVars, cancel, finder>>

\* ProcessPayment: the payment type
ProcessPayment(c) ==
    /\ pay[c].pc = "validate"
    /\ pay' = [pay EXCEPT ![c] =
                 IF ~pay[c].typeOk THEN Responded(pay[c], "failed", 0) ELSE [pay[c] EXCEPT !.pc = "select"]]
    /\ UNCHANGED <<seatVars, bookingVars, searchVars, cancel, finder, paySvc>>

\* ProcessPayment: the select on ctx.Done() and the processing time
PaymentSelect(c, ctxDone) ==
    /\ pay[c].pc = "select"
    /\ pay' = [pay EXCEPT ![c] =
                 IF ctxDone THEN Responded([pay[c] EXCEPT !.ctxDone = TRUE], "timeout", 0)
                 ELSE [pay[c] EXCEPT !.pc = "cmp1"]]
    /\ UNCHANGED <<seatVars, bookingVars, searchVars, cancel, finder, paySvc>>

\* ProcessPayment: the switch on randomValue; the payment id exists on success
PaymentOutcome(c) ==
    /\ pay[c].pc \in {"cmp1", "cmp2T", "cmp2F"}
    /\ pay' = [pay EXCEPT ![c] =
                 CASE pay[c].pc = "cmp1" ->
                        IF pay[c].rnd < paySvc.timeoutRate THEN Responded(pay[c], "timeout", 0)
                        ELSE [pay[c] EXCEPT !.pc = "cmp2T"]
                   [] pay[c].pc = "cmp2T" -> [pay[c] EXCEPT !.pc = "cmp2F", !.sum = paySvc.timeoutRate]
                   [] OTHER ->
                        IF pay[c].rnd < pay[c].sum + paySvc.failureRate THEN Responded(pay[c], "failed", 0)
                        ELSE Responded(pay[c], "success", c)]
    /\ UNCHANGED <<seatVars, bookingVars, searchVars, cancel, finder, paySvc>>

\* the deferred function of a Simulate* function
RestoreRate(c) ==
    /\ pay[c].pc \in {"restF", "restT"}
    /\ IF pay[c].pc = "restF"
       THEN /\ paySvc' = [paySvc EXCEPT !.failureRate = pay[c].origF]
            /\ pay' = [pay EXCEPT ![c].pc = "restT"]
       ELSE /\ paySvc' = [paySvc EXCEPT !.timeoutRate = pay[c].origT]
            /\ pay' = [pay EXCEPT ![c].pc = "done"]
    /\ UNCHANGED <<seatVars, bookingVars, searchVars, cancel, finder>>

NextPay ==
    \/ \E c \in PayCalls, kind \in PayKinds, typeOk \in BOOLEAN, rnd \in RandomValues :
         PaymentRequest(c, kind, typeOk, rnd)
    \/ \E c \in PayCalls : SaveRate(c)
    \/ \E c \in PayCalls : SetRate(c)
    \/ \E c \in PayCalls : ProcessPayment(c)
    \/ \E c \in PayCalls, ctxDone \in BOOLEAN : PaymentSelect(c, ctxDone)
    \/ \E c \in PayCalls : PaymentOutcome(c)
    \/ \E c \in PayCalls : RestoreRate(c)

SpecPay == Init /\ [][NextPay]_vars

(***************************************************************************)
(* Properties of the seat-inventory cache (specification Spec).            *)
(***************************************************************************)
DbAvailable(k) == flights[k[1]].total - flights[k[1]].booked

\* C1: the seats of the DecrementSeats calls that succeeded on a key since the
\* last increment, write or creation of its entry (when its count was N =
\* base) never sum to more than N: no interleaving of decrements oversells,
\* and two decrements for the last seat never both succeed.
NoOversell ==
    \A k \in SeatKeys :
        seatCache[k].has => seatHist[k].decSince <= seatHist[k].base

\* a decrement for the last seat was refused after another one took it
LastSeatRefused ==
    /\ lastOp.op = "decrement" /\ lastOp.res = ErrNotEnough
    /\ lastOp.pre.has /\ lastOp.pre.n = 0 /\ lastOp.seats = 1
    /\ seatHist[lastOp.key].base >= 1
    /\ seatHist[lastOp.key].decSince = seatHist[lastOp.key].base

\* C4: while an entry seeded from the flights table is in place, its count is the
\* seeded value total - booked minus the seats decremented and not yet
\* incremented back since the seeding.
CountIsSeedMinusOutstanding ==
    \A k \in SeatKeys :
        seatHist[k].seeded =>
            /\ seatCache[k].has
            /\ seatCache[k].n = DbAvailable(k) - seatHist[k].out

\* an increment has just given back part of what was decremented from a seeded key
SeededDecThenInc ==
    /\ lastOp.op = "increment" /\ lastOp.res = "ok"
    /\ seatHist[lastOp.key].seeded
    /\ seatHist[lastOp.key].out > 0
    /\ DbAvailable(lastOp.key) > 0

\* C5: a cached seat count is never negative.
CountNonNegative ==
    \A k \in SeatKeys : seatCache[k].has => seatCache[k].n >= 0

\* a decrement has just taken the count to zero
DecrementedToZero ==
    /\ lastOp.op = "decrement" /\ lastOp.res = "ok"
    /\ lastOp.pre.n > 0
    /\ seatCache[lastOp.key].has /\ seatCache[lastOp.key].n = 0

\* C6: the count of an existing entry is changed by DecrementSeats and
\* IncrementSeats only; the SET of getAvailableSeats never replaces the count
\* another request has decremented or incremented since the getAvailableSeats
\* call missed the cache.
CountChangedOnlyByAtomicOps ==
    [][\A k \in SeatKeys :
          (seatCache[k].has /\ seatCache'[k].has /\ seatCache'[k].n # seatCache[k].n)
              => lastOp'.op \in {"decrement", "increment"}]_vars

\* C7: an entry that comes into existence holds total - booked of the flights
\* table, whichever operation creates it.
NewEntryIsDbAvailable ==
    [][\A k \in SeatKeys :
          (~seatCache[k].has /\ seatCache'[k].has)
              => seatCache'[k].n = DbAvailable(k)]_vars

\* C8: DecrementSeats on a key without entry fails with "Seat count not found in
\* cache", on a count below the requested seats with "Not enough seats
\* available"; in both cases the entry is what it was before the call.
DecrementFailureLeavesCache ==
    (lastOp.op = "decrement" /\ lastOp.res # ErrInvalid) =>
        /\ ~lastOp.pre.has =>
              (lastOp.res = ErrNotFound /\ seatCache[lastOp.key] = NoEntry)
        /\ (lastOp.pre.has /\ lastOp.pre.n < lastOp.seats) =>
              (lastOp.res = ErrNotEnough /\ seatCache[lastOp.key] = lastOp.pre)
        /\ (lastOp.pre.has /\ lastOp.pre.n >= lastOp.seats) => lastOp.res = "ok"

\* a decrement of more seats than the entry holds has just been refused
DecrementRefusedInsufficient ==
    /\ lastOp.op = "decrement" /\ lastOp.res = ErrNotEnough
    /\ lastOp.pre.has /\ lastOp.pre.n = 1 /\ lastOp.seats = 2
    /\ seatCache[lastOp.key].n = 1

(***************************************************************************)
(* Properties of the booking saga (specification SpecSaga).                *)
(***************************************************************************)
RECURSIVE ConfirmedSeats(_, _, _)
\* seats of the confirmed (not cancelled) rows of bookings for flight f on date d
ConfirmedSeats(bs, f, d) ==
    IF bs = <<>> THEN 0
    ELSE (IF Head(bs).f = f /\ Head(bs).date = d /\ Head(bs).status = "confirmed"
          THEN Head(bs).seats ELSE 0) + ConfirmedSeats(Tail(bs), f, d)

\* C2: a CreateBooking that got its seats decremented and returns failed (payment
\* failed, timed out or could not be called, or the booking row could not be
\* written) has given exactly its seats back to the entry it took them from.
FailedSagaRestoresSeats ==
    \A p \in Sagas :
        (/\ saga[p].pc = "done" /\ saga[p].status = "failed"
         /\ saga[p].msg # "Failed to reserve seats"
         /\ saga[p].pair # "none")
            => saga[p].pair \in {"restored", "readded"}

\* C3: the seats of the confirmed bookings of a flight on a date never exceed
\* the flight's total seats.
ConfirmedWithinTotal ==
    \A k \in SeatKeys :
        /\ 0 <= ConfirmedSeats(bookings, k[1], k[2])
        /\ ConfirmedSeats(bookings, k[1], k[2]) <= flights[k[1]].total

\* C9: a decrement and its compensating increment on an entry that stayed in
\* place leave the count where it was before the decrement, plus what the other
\* requests' decrements and increments in between changed.
CompensationRestoresCount ==
    \A p \in Sagas : saga[p].pair # "diverged"

\* a compensation has restored the count although another request decremented
\* the same key between this request's decrement and its increment
CompensatedAroundOtherDecrement ==
    \E p, q \in Sagas :
        /\ p # q
        /\ saga[p].pair = "restored"
        /\ saga[q].pair = "open"
        /\ SagaKey(saga, p) = SagaKey(saga, q)
        /\ saga[q].others = saga[p].seats

(***************************************************************************)
(* Properties of the search cache (specification SpecSearch).              *)
(***************************************************************************)
\* the requests for key that have checked the search cache
Searched(key) == {s \in Searchers : search[s].pc # "idle" /\ search[s].key = key}

\* C10: when two or more searches of one key all missed the search cache before
\* any of them completed, and all have completed with a result,
\* searchFlightsFromDB has run exactly once for the key.
IdenticalSearchesComputeOnce ==
    \A key \in SearchKeys :
        (/\ Cardinality(Searched(key)) >= 2
         /\ \A s \in Searched(key) :
               /\ search[s].missed /\ search[s].early
               /\ search[s].pc = "done" /\ search[s].res = "ok")
            => dbCalls[key] = 1

\* the requests that are running searchFlightsFromDB for key inside Do
Computing(key) ==
    {s \in Searchers : search[s].pc \in {"exec", "finish"} /\ search[s].key = key}

\* C11: at every moment at most one searchFlightsFromDB is in flight for a key
\* (recomputations of different keys may run side by side).
OneRecomputationPerKey == \A key \in SearchKeys : Cardinality(Computing(key)) <= 1

\* two keys are being recomputed at once while a third request waits on one of them
TwoKeysComputingOneWaiting ==
    \E s1, s2, s3 \in Searchers :
        /\ search[s1].pc = "exec" /\ search[s2].pc = "exec"
        /\ search[s1].key # search[s2].key
        /\ search[s3].pc = "wait" /\ search[s3].key = search[s1].key
        /\ search[s3].call = s1

\* request s joined a call that another request had started
Joined(s) == search[s].missed /\ search[s].call \notin {0, s}

\* C12: a request that joined a call in flight gets from Do what the starter of
\* that call gets, the flights or the error of that one execution (also the
\* error of the starter's ended context), and has run no execution of its own.
JoinersGetTheCallsOutcome ==
    \A s \in Searchers :
        (Joined(s) /\ search[s].pc # "wait") =>
            LET c == search[s].call IN
            /\ search[s].got = search[c].got
            /\ search[s].got = [call |-> c, err |-> calls[c].err]
            /\ calls[s].state = "none"
            /\ (search[s].got.err # "" =>
                   search[s].pc = "done" /\ search[s].res = "failed to search flights")

\* a request that joined has been handed the error of the starter's ended context
JoinerGotStartersCancellation ==
    \E s \in Searchers :
        /\ Joined(s) /\ search[s].pc = "done"
        /\ search[s].got.err = "context canceled"
        /\ search[search[s].call].pc = "done"
        /\ dbCalls[search[s].key] = 1

(***************************************************************************)
(* Properties of the outcomes of the booking saga (specification SpecSaga).*)
(***************************************************************************)
\* C13: once the payment has succeeded and the booking row is written, the row
\* is confirmed with the request's user, flight, date, seats and the payment id,
\* the saga can only return confirmed, with both ids, and it has not given its
\* seats back: while its entry stays in place the count is the one before its
\* decrement, minus its seats, plus what other requests changed.
ConfirmedBookingIsDurable ==
    \A p \in Sagas :
        /\ saga[p].bookingID # 0 =>
              /\ saga[p].bookingID \in 1..Len(bookings)
              /\ LET b == bookings[saga[p].bookingID] IN
                    /\ b.status = "confirmed" /\ b.seats = saga[p].seats
                    /\ b.user = saga[p].user /\ b.f = saga[p].f /\ b.date = saga[p].d
                    /\ b.paymentID = saga[p].paymentID
              /\ saga[p].paymentID # 0
              /\ saga[p].pair \in {"open", "tainted"}
              /\ saga[p].pair = "open" =>
                    /\ seatCache[SagaKey(saga, p)].has
                    /\ seatCache[SagaKey(saga, p)].n =
                          saga[p].pre - saga[p].seats + saga[p].others
              /\ saga[p].pc = "done" => saga[p].status = "confirmed"
        /\ (saga[p].pc = "done" /\ saga[p].status = "confirmed") =>
              saga[p].bookingID # 0 /\ saga[p].paymentID # 0

\* a booking of two seats has been confirmed and its key stands two lower
ConfirmedTwoSeats ==
    \E p \in Sagas :
        /\ saga[p].pc = "done" /\ saga[p].status = "confirmed"
        /\ saga[p].seats = 2 /\ saga[p].pair = "open" /\ saga[p].others = 0
        /\ seatCache[SagaKey(saga, p)].n = saga[p].pre - 2
        /\ Len(bookings) = 1

\* the key of the TempBooking of saga p
TempKey(sg, p) == GenerateTempBookingCacheKey(sg[p].user, sg[p].f)

\* C14: when a saga that has written its TempBooking returns confirmed or failed,
\* no TempBooking is left under its (userID, flightID) key.
TempBookingGoneAtReturn ==
    [][\A p \in Sagas :
          (/\ saga[p].pc \in {"dec_resp", "del_temp", "revert_del"}
           /\ saga'[p].pc = "done"
           /\ saga'[p].status \in {"confirmed", "failed"})
              => ~tempCache'[TempKey(saga, p)].has]_vars

\* C15: a payment response whose status is not success, failed or timeout ends
\* the saga as pending; that step removes no TempBooking, changes no seat count,
\* writes no booking, and the saga's decrement stays uncompensated.
PendingKeepsReservation ==
    [][\A p \in Sagas :
          (/\ saga[p].pc = "payment" /\ saga'[p].pc # "payment"
           /\ lastOp'.op = "payment"
           /\ lastOp'.res \notin {"success", "failed", "timeout", "unreachable"})
              => /\ saga'[p].pc = "done" /\ saga'[p].status = "pending"
                 /\ saga'[p].pair = saga[p].pair
                 /\ saga'[p].pair \in {"open", "tainted"}
                 /\ UNCHANGED <<tempCache, seatCache, bookings>>]_vars

\* a saga has just returned pending with its TempBooking and its seats held
ReturnedPendingHoldingSeats ==
    \E p \in Sagas :
        /\ lastOp.op = "payment" /\ lastOp.res = "pending"
        /\ saga[p].pc = "done" /\ saga[p].status = "pending"
        /\ saga[p].pair = "open" /\ saga[p].others = 0
        /\ tempCache[TempKey(saga, p)].has
        /\ seatCache[SagaKey(saga, p)].n = saga[p].pre - saga[p].seats

\* C16: when the payment call fails (the collaborator is unreachable, or the
\* request's deadline or cancellation fires while the payment is awaited) the
\* saga ends pending, without compensation.
FailedPaymentCallEndsPending ==
    [][\A p \in Sagas :
          (/\ saga[p].pc = "payment" /\ saga'[p].pc # "payment"
           /\ lastOp'.op = "payment" /\ lastOp'.res = "unreachable")
              => saga'[p].pc = "done" /\ saga'[p].status = "pending"]_vars

\* C17: a saga that returns failed because the booking row could not be written
\* has no booking row, and its seats have been added back to the key.
PersistFailureCompensates ==
    \A p \in Sagas :
        (/\ saga[p].pc = "done" /\ saga[p].status = "failed"
         /\ saga[p].msg = "Failed to create booking")
            => /\ saga[p].bookingID = 0
               /\ saga[p].pair \in {"restored", "readded", "reseeded"}

\* C18: the step in which validation fails (flight not found, or fewer seats
\* than requested) returns failed, touches no TempBooking and no booking, and
\* leaves the count of every populated seat key as it was.
ValidationFailureHasNoEffect ==
    [][\A p \in Sagas :
          (/\ saga[p].pc \in {"validate", "v_set"}
           /\ saga'[p].pc = "done" /\ saga'[p].status = "failed")
              => /\ UNCHANGED <<tempCache, bookings>>
                 /\ saga'[p].pair = "none" /\ saga'[p].paymentID = 0
                 /\ \A k \in SeatKeys :
                       seatCache[k].has => seatCache'[k].n = seatCache[k].n]_vars

\* C19: a saga that returns failed at the decrement step has taken no seats
\* from the key.
DecrementFailureTookNoSeats ==
    \A p \in Sagas :
        (/\ saga[p].pc = "done" /\ saga[p].status = "failed"
         /\ saga[p].msg = "Failed to reserve seats")
            => saga[p].pair = "none"

\* C20: the compensation step of a saga runs only after its own decrement
\* succeeded and before any compensation of it; what it adds goes to the key
\* of its flight and date and is its seats; and nothing else increments a key.
CompensationOnlyForOwnDecrement ==
    [][/\ \A p \in Sagas :
             (saga[p].pc = "revert_inc" /\ saga'[p].pc = "revert_del") =>
                 /\ saga[p].pair \in {"open", "tainted"}
                 /\ \/ UNCHANGED seatCache /\ saga'[p].pair = saga[p].pair
                    \/ /\ seatCache' = [seatCache EXCEPT ![SagaKey(saga, p)] =
                                           RedisIncrBy(@, saga[p].seats)]
                       /\ saga'[p].pair \notin {"open", "tainted"}
       /\ (\E k \in SeatKeys : seatCache'[k].has /\ seatCache[k].has
                                /\ seatCache'[k].n > seatCache[k].n) =>
             \E p \in Sagas : saga[p].pc \in {"revert_inc", "v_set"}
                              /\ saga'[p].pc # saga[p].pc]_vars

\* a saga has just added its two seats back, once, after its own decrement
CompensatedTwoSeats ==
    \E p \in Sagas :
        /\ lastOp.op = "increment" /\ lastOp.seats = 2
        /\ lastOp.key = SagaKey(saga, p)
        /\ saga[p].pc = "revert_del" /\ saga[p].seats = 2
        /\ saga[p].pair = "restored"

\* C21: the seats a saga has taken from a key do not stay taken for ever
\* without a booking row: the saga's compensation adds them back, or a booking
\* row of the saga holds them, or at least the entry is replaced by a fresh
\* one from the table.
ReservedSeatsResolved ==
    \A p \in Sagas :
        (saga[p].pair = "open") ~> (saga[p].pair # "open" \/ saga[p].bookingID # 0)

(***************************************************************************)
(* Properties of cancellation (specification SpecCancel).                  *)
(***************************************************************************)
\* request c has been let through by the CanCancel check
Accepted(c) ==
    \/ cancel[c].pc \in {"update", "increment", "del"}
    \/ cancel[c].incremented
    \/ cancel[c].pc = "done" /\ cancel[c].res \in {"ok", "failed to update booking status"}

\* C22: of two cancellations of one confirmed booking, the second begun after
\* the first returned success, the second is not let through: it does not
\* write the status, does not increment and does not return success.
SecondCancelRejected ==
    \A c1, c2 \in Cancels :
        (/\ cancel[c1].op = "cancel" /\ cancel[c2].op = "cancel"
         /\ cancel[c1].durable = "confirmed"
         /\ cancel[c1].pc = "done" /\ cancel[c1].res = "ok"
         /\ c1 \in cancel[c2].after)
            => ~Accepted(c2)

\* C23: a cancellation that began when the durable status was failed or
\* cancelled is not let through.
CancelOnlyFromPendingOrConfirmed ==
    \A c \in Cancels :
        (cancel[c].op = "cancel" /\ cancel[c].durable \in {"failed", "cancelled"})
            => ~Accepted(c)

\* C24: a cancellation goes on to return success after its increment, failed
\* or not, with the row cancelled; when its UPDATE fails it returns that error,
\* has incremented nothing and the row and the seat count are as they were.
CancelSurvivesIncrementFailure ==
    [][\A c \in Cancels :
          /\ (cancel[c].pc = "increment" /\ cancel'[c].pc # "increment") =>
                /\ cancel'[c].pc = "del"
                /\ bookings'[cancel[c].id].status = "cancelled"
          /\ (cancel[c].pc = "del" /\ cancel'[c].pc # "del") =>
                /\ cancel'[c].pc = "done" /\ cancel'[c].res = "ok"
                /\ bookings'[cancel[c].id].status = "cancelled"
          /\ (cancel[c].pc = "update" /\ cancel'[c].pc = "done") =>
                /\ cancel'[c].res = "failed to update booking status"
                /\ ~cancel'[c].incremented
                /\ UNCHANGED <<bookings, seatCache>>]_vars

\* a cancellation has returned success although its increment failed
CancelledWithoutIncrement ==
    \E c \in Cancels :
        /\ cancel[c].op = "cancel" /\ cancel[c].pc = "done" /\ cancel[c].res = "ok"
        /\ ~cancel[c].incremented
        /\ lastOp.op = "increment" /\ lastOp.res = "failed"
        /\ bookings[cancel[c].id].status = "cancelled"

\* C25: the status of a booking row changes only from pending or confirmed,
\* and only to cancelled.
StatusOnlyToCancelled ==
    [][\A i \in 1..Len(bookings) :
          bookings'[i].status # bookings[i].status =>
              /\ bookings[i].status \in {"pending", "confirmed"}
              /\ bookings'[i].status = "cancelled"]_vars

\* a pending booking has been cancelled
PendingBookingCancelled ==
    \E c \in Cancels :
        /\ cancel[c].op = "cancel" /\ cancel[c].pc = "done"
        /\ cancel[c].durable = "pending" /\ cancel[c].res = "ok"
        /\ bookings[cancel[c].id].status = "cancelled"

(***************************************************************************)
(* Further properties of the seat service (specification Spec).            *)
(***************************************************************************)
\* C26: a validation of a flight id that is not in the flights table answers
\* "Flight not found" (valid false, no error), whatever the seats and date,
\* and changes no cache entry; and only such a validation answers so.
UnknownFlightNotFound ==
    [][(lastOp'.op = "validate" /\ lastOp' # lastOp /\ lastOp'.res # ErrInvalid) =>
          /\ lastOp'.key[1] \notin DOMAIN flights <=> lastOp'.res = "Flight not found"
          /\ lastOp'.key[1] \notin DOMAIN flights =>
                UNCHANGED <<seatCache, req, tempCache, bookingCache, searchCache>>]_vars

\* an unknown flight has been refused while the seat key of a known flight is cached
UnknownFlightRefused ==
    /\ lastOp.op = "validate" /\ lastOp.res = "Flight not found"
    /\ lastOp.key[1] = 2 /\ lastOp.seats = 2
    /\ \E k \in SeatKeys : seatCache[k].has

(***************************************************************************)
(* Properties of the path finder and the search result (specification      *)
(* SpecPaths).                                                             *)
(***************************************************************************)

\* C27: findFlightPaths returns every itinerary of 1 to 4 legs from the source
\* to the destination on the date in which every leg has the requested seats
\* and every connection departs after the previous arrival and within the
\* connection window, itineraries of 2 and of 3 connections included.
EveryItineraryFound ==
    LET Leg(f) == DateOf(f.dep) = finder.date /\ f.total - f.booked >= finder.seats
        Link(f, g) == /\ f.destination = g.source
                      /\ Leg(g)
                      /\ g.dep > f.arr
                      /\ g.dep <= f.arr + 4
        Ends(f) == f.destination = finder.destination
        Returned(legs) == \E i \in DOMAIN finder.paths : finder.paths[i].flights = legs
    IN  finder.pc = "paths" =>
          \A a \in finder.fl :
            (a.source = finder.source /\ Leg(a)) =>
              /\ Ends(a) => Returned(<<a>>)
              /\ \A b \in finder.fl :
                   Link(a, b) =>
                     /\ Ends(b) => Returned(<<a, b>>)
                     /\ \A c \in finder.fl :
                          Link(b, c) =>
                            /\ Ends(c) => Returned(<<a, b, c>>)
                            /\ \A d \in finder.fl :
                                 (Link(c, d) /\ Ends(d)) => Returned(<<a, b, c, d>>)

\* C28: every itinerary a search returns begins at the requested source, each
\* leg leaves from where the leg before it arrived, and the last leg arrives at
\* the requested destination.
ReturnedItinerariesConnect ==
    finder.pc = "done" =>
      \A i \in DOMAIN finder.res :
        LET legs == finder.res[i].flights
        IN  /\ legs[1].source = finder.source
            /\ \A k \in 2..Len(legs) : legs[k].source = legs[k - 1].destination
            /\ legs[Len(legs)].destination = finder.destination

\* C29: for each connecting itinerary the path finder has for the search whose
\* legs all have the requested seats, the search returns one itinerary of those
\* legs in order, with stops = legs - 1, the summed price and the time from the
\* first departure to the last arrival.
ConnectingItineraryReturned ==
    finder.pc = "done" =>
      \A i \in DOMAIN finder.paths :
        LET legs == finder.paths[i].flights
        IN  (/\ Len(legs) >= 2
             /\ \A k \in DOMAIN legs : legs[k].total - legs[k].booked >= finder.seats)
            => \E j \in DOMAIN finder.res :
                 /\ finder.res[j].flights = legs
                 /\ finder.res[j].stops = Len(legs) - 1
                 /\ finder.res[j].totalPrice = SumPrice(legs)
                 /\ finder.res[j].totalTime = (legs[Len(legs)].arr - legs[1].dep) * 60

\* C30: in every itinerary of several legs the path finder produces, each leg
\* departs strictly after the arrival of the leg before it and at most 4 hours
\* after it.
ConnectionsWithinWindow ==
    \A i \in DOMAIN finder.paths :
      LET legs == finder.paths[i].flights
      IN  \A k \in 2..Len(legs) :
            /\ legs[k].dep > legs[k - 1].arr
            /\ legs[k].dep <= legs[k - 1].arr + 4

\* a two-leg itinerary was produced from a table that also holds an onward
\* flight that leaves before the first leg arrives and one that leaves more
\* than 4 hours after it
TwoLegsFoundAmongUnusableConnections ==
    /\ finder.pc = "paths"
    /\ \E i \in DOMAIN finder.paths :
         LET legs == finder.paths[i].flights
         IN  /\ Len(legs) = 2
             /\ \E early, late \in finder.fl :
                  /\ early.source = legs[1].destination
                  /\ early.destination = finder.destination
                  /\ early.dep <= legs[1].arr
                  /\ late.source = legs[1].destination
                  /\ late.destination = finder.destination
                  /\ late.dep > legs[1].arr + 4

\* C31: findFlightPaths returns no two itineraries with the same ordered list
\* of leg ids, although the direct flights and the multi-stop queries for 1, 2
\* and 3 stops are collected by separate steps.
NoDuplicateItineraries ==
    LET Ids(path) == [k \in DOMAIN path.flights |-> path.flights[k].id]
    IN  finder.pc = "paths" =>
          \A i, j \in DOMAIN finder.paths :
            i # j => Ids(finder.paths[i]) # Ids(finder.paths[j])

\* C32: the itineraries a search returns are in order of non-decreasing total
\* price, or of non-decreasing total time when sortBy is "fastest".
ResultsSorted ==
    finder.pc = "done" =>
      \A i, j \in DOMAIN finder.res :
        i < j =>
          IF finder.sortBy = "fastest"
          THEN finder.res[i].totalTime <= finder.res[j].totalTime
          ELSE finder.res[i].totalPrice <= finder.res[j].totalPrice

\* a search by price returned itineraries at three price points, one of them
\* ahead of a faster one
ThreePricesCheapestFirst ==
    /\ finder.pc = "done"
    /\ finder.sortBy = "cheapest"
    /\ \E i, j, k \in DOMAIN finder.res :
         /\ i < j /\ j < k
         /\ finder.res[i].totalPrice < finder.res[j].totalPrice
         /\ finder.res[j].totalPrice < finder.res[k].totalPrice
         /\ finder.res[j].totalTime > finder.res[k].totalTime

(***************************************************************************)
(* Properties of the search filter while seat counts change (specification *)
(* SpecLive).                                                              *)
(***************************************************************************)

\* C33: a search for s seats, served from the search cache or freshly
\* computed, returns a flight only if the count it read for the flight when it
\* filtered was at least s: the count is the seat key's when the key exists and
\* the table's total - booked otherwise.
ReturnedOnlyWithLiveSeats ==
    [][\A s \in Searchers :
         LET rec == search[s]
             k == GenerateSeatCacheKey(1, rec.key[3])
         IN  /\ (rec.pc = "filter" /\ search'[s].pc = "done" /\ search'[s].count > 0)
                   => (seatCache[k].has /\ seatCache[k].n >= rec.seats)
             /\ (rec.pc = "filter" /\ search'[s].pc = "f_db") => ~seatCache[k].has
             /\ (rec.pc = "f_db" /\ search'[s].pc = "f_set")
                   => search'[s].avail = flights[1].total - flights[1].booked
             /\ (rec.pc = "f_set" /\ search'[s].pc = "done" /\ search'[s].count > 0)
                   => rec.avail >= rec.seats]_vars

\* a search was served from the search cache and returned nothing because the
\* flight no longer had the seats an earlier search for as many seats had found
CachedCandidateFilteredOut ==
    \E s, o \in Searchers :
        /\ s # o
        /\ search[o].pc = "done" /\ search[o].res = "ok" /\ search[o].count = 1
        /\ search[s].pc = "done" /\ search[s].res = "ok" /\ search[s].count = 0
        /\ ~search[s].missed
        /\ search[s].key = search[o].key
        /\ search[s].seats = search[o].seats

(***************************************************************************)
(* Properties of the payment service (specification SpecPay).              *)
(***************************************************************************)

\* C34: a SimulatePaymentFailure call returns failed, a SimulatePaymentTimeout
\* call returns timeout and a SimulatePaymentSuccess call returns success, a
\* payment id being present only on success, also when other calls run on the
\* same service at the same time (the request has a valid payment type and
\* its context has not ended).
SimulatedOutcomeAsAsked ==
    \A c \in PayCalls :
        (pay[c].pc = "done" /\ pay[c].typeOk /\ ~pay[c].ctxDone) =>
            /\ pay[c].kind = "failure" => pay[c].status = "failed"
            /\ pay[c].kind = "timeout" => pay[c].status = "timeout"
            /\ pay[c].kind = "success" => pay[c].status = "success"
            /\ pay[c].paymentID # 0 => pay[c].status = "success"

(***************************************************************************)
(* Properties of the course of a CreateBooking request (specifications     *)
(* SpecOneUser and FairOneUser).                                           *)
(***************************************************************************)

\* the stage a request is in: 1 validating, 2 reserving, 3 awaiting payment,
\* 4 persisting or compensating, 5 returned
SagaStage(pc) ==
    CASE pc = "idle" -> 0
      [] pc \in {"validate", "v_db", "v_set"} -> 1
      [] pc \in {"temp", "decrement", "dec_resp"} -> 2
      [] pc = "payment" -> 3
      [] pc = "done" -> 5
      [] OTHER -> 4

\* C35: a CreateBooking request passes validating, reserving and awaiting
\* payment in that order; the payment is asked for only after the request's
\* decrement succeeded and the bookings row is inserted only after the payment
\* succeeded; when every call returns, the request returns, with one outcome
\* among confirmed, failed, pending and an error, which does not change.
SagaRunsInOrderToOneOutcome ==
    /\ [](\A p \in Sagas :
            /\ SagaStage(saga[p].pc) \in {3, 4} =>
                  saga[p].decReply = "ok" /\ saga[p].pair # "none"
            /\ saga[p].bookingID # 0 => saga[p].paymentID # 0
            /\ saga[p].pc = "done" =>
                  saga[p].status \in {"confirmed", "failed", "pending", "error"})
    /\ [](\A b \in DOMAIN bookings : bookings[b].paymentID # 0)
    /\ [][\A p \in Sagas :
            LET from == SagaStage(saga[p].pc)
                to == SagaStage(saga'[p].pc)
            IN  /\ to >= from
                /\ (to # from /\ to \in {1, 2, 3}) => to = from + 1
                /\ (to = 4 /\ from # 4) => from = 3
                /\ from = 5 => saga'[p].status = saga[p].status]_vars
    /\ \A p \in Sagas : (saga[p].pc # "idle") ~> (saga[p].pc = "done")

\* one request returned confirmed with its bookings row and the other returned
\* failed after its payment failed and its seats were given back
ConfirmedAndCompensated ==
    \E p, q \in Sagas :
        /\ saga[p].pc = "done" /\ saga[p].status = "confirmed"
        /\ saga[p].bookingID # 0 /\ saga[p].paymentID # 0
        /\ saga[q].pc = "done" /\ saga[q].status = "failed"
        /\ saga[q].pair \in {"restored", "readded", "reseeded", "diverged"}

\* C37: in every reachable state the cached seat count of a key is at most the
\* total seats of its flight, whatever bookings and compensations the booking
\* service has issued.
CachedCountAtMostTotal ==
    \A k \in SeatKeys :
        seatCache[k].has => seatCache[k].n <= flights[k[1]].total

\* C38: while a CreateBooking request is between its successful decrement
\* and its return, a TempBooking with the request's seats, amount and date is
\* under its key, also when another request of the same user for the same
\* flight starts or finishes meanwhile.
TempBookingHeldUntilReturn ==
    \A p \in Sagas :
        (/\ saga[p].pair # "none"
         /\ saga[p].pc \in {"dec_resp", "payment", "persist", "cache_booking",
                            "del_temp", "revert_inc", "revert_del"})
            => LET tb == tempCache[GenerateTempBookingCacheKey(saga[p].user, saga[p].f)]
               IN  /\ tb.has
                   /\ tb.seats = saga[p].seats
                   /\ tb.amount = saga[p].price
                   /\ tb.date = saga[p].d

(***************************************************************************)
(* Properties of concurrent cancellations and reads of a booking           *)
(* (specification SpecRace).                                               *)
(***************************************************************************)

\* C36: whatever the interleaving of the CancelBooking calls on a confirmed
\* booking with each other and with GetBooking calls that fill the booking
\* cache, the booking's seats are added to the seat count at most once.
SeatsReturnedAtMostOnce ==
    \A id \in 1..Len(bookings) :
        Cardinality({c \in Cancels : /\ cancel[c].op = "cancel"
                                     /\ cancel[c].id = id
                                     /\ cancel[c].durable = "confirmed"
                                     /\ cancel[c].incremented}) <= 1

\* C39: once a CancelBooking of a booking has returned success, a GetBooking
\* of it that begins later returns status cancelled, whatever GetBooking calls
\* were in progress during the cancellation.
LaterGetSeesCancelled ==
    \A c, g \in Cancels :
        (/\ cancel[c].op = "cancel" /\ cancel[c].pc = "done" /\ cancel[c].res = "ok"
         /\ cancel[g].op = "get" /\ cancel[g].pc = "done" /\ cancel[g].res = "ok"
         /\ cancel[g].id = cancel[c].id
         /\ c \in cancel[g].after)
            => cancel[g].status = "cancelled"

====
